---- MODULE Spec2Model ----
(***************************************************************************)
(* A model of the asdf core (jonathanmorley/asdf, Rust port): the install  *)
(* lifecycle (src/core/installs.rs), the shim generator                    *)
(* (src/core/reshim.rs) and the shim dispatcher / version resolver         *)
(* (src/lib.rs).                                                           *)
(*                                                                         *)
(* Text is modelled as TLA+ strings, on which Len, SubSeq and \o act       *)
(* character by character, so that the string functions of the code        *)
(* (contains, replacen, lines, split, starts_with, ...) are computed as    *)
(* the code computes them.  The filesystem is a set of directory paths     *)
(* and a map from file paths to contents and mode.                         *)
(***************************************************************************)
EXTENDS Integers, Sequences, FiniteSets, TLC

VARIABLES
    dirs,       \* the set of directories that exist (absolute paths)
    files,      \* path |-> [contents, mode] of every regular file
    pc,         \* where the CLI process is in its current operation
    op,         \* the operation the CLI process is running (or NoOp)
    queue,      \* reshim of all versions: the versions still to process
    result,     \* outcome of the last operation: none / ok / err / killed
    log,        \* the steps (subprocesses, reshim) run by the operation
    nops,       \* number of operations started so far
    env,        \* the environment variables of the process
    selected,   \* the dispatcher: what select_version returned, per shim run
    found,      \* the resolver: what find_versions returned, per call
    parsed,     \* the grammar: the text given to a parser and what it gave
    batch,      \* install_local_tool_versions: what is left to install, and
                \* the installs made so far
    wpc,        \* concurrent reshims: where each writer process is
    wbuf,       \* concurrent reshims: what each writer read of the shim
    stale,      \* concurrent reshims: a writer wrote over a newer shim
    reaped      \* reshim of all versions: the shims the last round handed to
                \* remove_shim_for_version, as they were and as they are

vars == <<dirs, files, pc, op, queue, result, log, nops, env, selected, found, parsed,
         batch, wpc, wbuf, stale, reaped>>
cliVars == <<pc, op, queue, result, log, nops>>
dispVars == <<env, selected, found, parsed, batch, reaped>>
concVars == <<wpc, wbuf, stale>>

(***************************************************************************)
(* Bounds of the model.                                                    *)
(***************************************************************************)
MaxInstalls == 2
MaxReshims == 3

(***************************************************************************)
(* String functions of the Rust standard library used by the code.         *)
(***************************************************************************)
\* a `let` of the code: the value of F at x, with x computed once
Bind(F(_), x) == CHOOSE r \in {F(y) : y \in {x}} : TRUE

StartsWith(s, p) == Len(s) >= Len(p) /\ SubSeq(s, 1, Len(p)) = p

\* str::find: index of the first occurrence of p in s, 0 when there is none
Find[s \in STRING, p \in STRING] ==
    LET I == {i \in 1..(Len(s) - Len(p) + 1) : SubSeq(s, i, i + Len(p) - 1) = p}
    IN  IF I = {} THEN 0 ELSE CHOOSE i \in I : \A j \in I : i <= j

\* index of the last occurrence of p in s, 0 when there is none
RFind[s \in STRING, p \in STRING] ==
    LET I == {i \in 1..(Len(s) - Len(p) + 1) : SubSeq(s, i, i + Len(p) - 1) = p}
    IN  IF I = {} THEN 0 ELSE CHOOSE i \in I : \A j \in I : i >= j

Contains(s, p) == Find[s, p] # 0

\* str::replacen(from, to, 1)
Replacen1(s, from, to) ==
    LET i == Find[s, from]
    IN  IF i = 0 THEN s
        ELSE SubSeq(s, 1, i - 1) \o to \o SubSeq(s, i + Len(from), Len(s))

\* str::replace(from, to): every non-overlapping occurrence, left to right
Replace[s \in STRING, from \in STRING, to \in STRING] ==
    LET i == Find[s, from]
    IN  IF i = 0 THEN s
        ELSE SubSeq(s, 1, i - 1) \o to
             \o Replace[SubSeq(s, i + Len(from), Len(s)), from, to]

\* str::split(sep)
Split[s \in STRING, sep \in STRING] ==
    LET i == Find[s, sep]
    IN  IF i = 0 THEN <<s>>
        ELSE <<SubSeq(s, 1, i - 1)>> \o Split[SubSeq(s, i + Len(sep), Len(s)), sep]

\* str::splitn(2, sep)
Splitn2(s, sep) ==
    LET i == Find[s, sep]
    IN  IF i = 0 THEN <<s>>
        ELSE <<SubSeq(s, 1, i - 1), SubSeq(s, i + Len(sep), Len(s))>>

\* str::lines: split at line feeds, a final empty piece is not a line
Lines(s) ==
    Bind(LAMBDA parts :
             IF parts[Len(parts)] = "" THEN SubSeq(parts, 1, Len(parts) - 1) ELSE parts,
         Split[s, "\n"])

\* Itertools::join
Join[seq \in Seq(STRING), sep \in STRING] ==
    IF seq = <<>> THEN ""
    ELSE IF Len(seq) = 1 THEN seq[1]
    ELSE seq[1] \o sep \o Join[Tail(seq), sep]

IsSpace(c) == c \in {" ", "\t", "\n", "\r"}

TrimEnd[s \in STRING] ==
    IF Len(s) > 0 /\ IsSpace(SubSeq(s, Len(s), Len(s)))
    THEN TrimEnd[SubSeq(s, 1, Len(s) - 1)] ELSE s

TrimStart[s \in STRING] ==
    IF Len(s) > 0 /\ IsSpace(SubSeq(s, 1, 1))
    THEN TrimStart[SubSeq(s, 2, Len(s))] ELSE s

Trim(s) == TrimStart[TrimEnd[s]]

Range(seq) == {seq[i] : i \in 1..Len(seq)}

\* the elements of a finite set in some order (read_dir gives no order)
RECURSIVE SetToSeq(_)
SetToSeq(S) ==
    IF S = {} THEN <<>>
    ELSE LET x == CHOOSE y \in S : TRUE IN <<x>> \o SetToSeq(S \ {x})

(***************************************************************************)
(* Paths (std::path).                                                      *)
(***************************************************************************)
PathJoin(dir, name) ==
    IF StartsWith(name, "/") THEN name
    ELSE IF dir = "/" THEN "/" \o name
    ELSE dir \o "/" \o name

FileName(path) == SubSeq(path, RFind[path, "/"] + 1, Len(path))

Parent(path) ==
    LET i == RFind[path, "/"]
    IN  IF i <= 1 THEN "/" ELSE SubSeq(path, 1, i - 1)

(***************************************************************************)
(* The filesystem (std::fs).                                               *)
(***************************************************************************)
Mode755 == 493
Mode644 == 420

RECURSIVE SelfAndAncestors(_)
SelfAndAncestors(path) ==
    IF path = "/" \/ path = "" THEN {}
    ELSE {path} \cup SelfAndAncestors(Parent(path))

IsDir(d, path) == path = "/" \/ path \in d
IsFile(f, path) == path \in DOMAIN f

\* fs::create_dir_all
CreateDirAll(d, path) == d \cup SelfAndAncestors(path)

\* fs::create_dir: fails when the parent is missing or the path exists
CanCreateDir(d, f, path) ==
    IsDir(d, Parent(path)) /\ ~IsDir(d, path) /\ ~IsFile(f, path)

Under(path, dir) == path = dir \/ StartsWith(path, dir \o "/")

\* fs::remove_dir_all
RemoveDirAllDirs(d, dir) == {q \in d : ~Under(q, dir)}
RemoveDirAllFiles(f, dir) == [q \in {x \in DOMAIN f : ~Under(x, dir)} |-> f[q]]

\* fs::write: creates the file (mode 0644) or truncates it (mode kept)
WriteFile(f, path, text) ==
    [q \in DOMAIN f \cup {path} |->
        IF q = path
        THEN [contents |-> text,
              mode |-> IF path \in DOMAIN f THEN f[path].mode ELSE Mode644]
        ELSE f[q]]

\* fs::set_permissions
SetPermissions(f, path, m) ==
    [q \in DOMAIN f |-> IF q = path THEN [f[q] EXCEPT !.mode = m] ELSE f[q]]

\* fs::remove_file
RemoveFile(f, path) == [q \in DOMAIN f \ {path} |-> f[q]]

\* fs::read_dir: the entries of a directory
ReadDir(d, f, dir) == {q \in d \cup DOMAIN f : q # dir /\ Parent(q) = dir}

HasExecBit(m) == (m \div 64) % 2 = 1 \/ (m \div 8) % 2 = 1 \/ m % 2 = 1

\* is_executable::IsExecutable: some execute bit is set
IsExecutable(d, f, path) ==
    \/ path \in d
    \/ path \in DOMAIN f /\ HasExecBit(f[path].mode)

(***************************************************************************)
(* Layout of the data directory (src/lib.rs).  The process environment is  *)
(* fixed: ASDF_DATA_DIR, the home directory, the working directory and the *)
(* path of the running executable.                                         *)
(***************************************************************************)
DataDir == "/d"
Home == "/h"
Cwd == "/w/p"
CurrentExe == "/asdf"

asdf_data_dir == DataDir
shims_path == PathJoin(asdf_data_dir, "shims")
plugins_path == PathJoin(asdf_data_dir, "plugins")
installs_path == PathJoin(asdf_data_dir, "installs")
downloads_path == PathJoin(asdf_data_dir, "downloads")
plugin_path(plugin_name) == PathJoin(plugins_path, plugin_name)
plugin_installs_path(plugin_name) == PathJoin(installs_path, plugin_name)
plugin_downloads_path(plugin_name) == PathJoin(downloads_path, plugin_name)
asdf_config_file == PathJoin(Home, ".asdfrc")

\* the path install_path returns; it also creates installs/<plugin>
install_path(plugin_name, install_type, version) ==
    LET plugin_dir == plugin_installs_path(plugin_name)
    IN  IF install_type = "version" THEN PathJoin(plugin_dir, version)
        ELSE IF install_type = "path" THEN version
        ELSE PathJoin(plugin_dir, install_type \o "-" \o version)

\* the path download_path returns (<<>> is None); it also creates
\* downloads/<plugin>
download_path(plugin_name, install_type, version) ==
    LET downloads == plugin_downloads_path(plugin_name)
    IN  IF install_type = "version" THEN <<PathJoin(downloads, version)>>
        ELSE IF install_type = "path" THEN <<>>
        ELSE <<PathJoin(downloads, install_type \o "-" \o version)>>

plugin_exists(d, plugin_name) ==
    plugin_name # "" /\ IsDir(d, plugin_path(plugin_name))

\* find_file_upwards: the nearest file of that name from the working
\* directory upwards (<<>> is None)
RECURSIVE FindUpFrom(_, _, _)
FindUpFrom(f, dir, name) ==
    IF IsFile(f, PathJoin(dir, name)) THEN <<PathJoin(dir, name)>>
    ELSE IF dir = "/" THEN <<>>
    ELSE FindUpFrom(f, Parent(dir), name)

find_file_upwards(f, name) == FindUpFrom(f, Cwd, name)

(***************************************************************************)
(* Config reader (src/lib.rs).                                             *)
(***************************************************************************)
\* one line of an rc file: <<key, value>>, <<>> when it has no "="
ConfigPair(line) ==
    Bind(LAMBDA kv : IF Len(kv) = 2 THEN <<Trim(kv[1]), Trim(kv[2])>> ELSE <<>>,
         Splitn2(line, "="))

\* the key = value pairs of the lines that contain an "="
ConfigPairs(text) ==
    Bind(LAMBDA ls : SelectSeq([i \in 1..Len(ls) |-> ConfigPair(ls[i])],
                               LAMBDA kv : kv # <<>>),
         Lines(text))

\* <<value>> of the first line with that key; <<>> is the Err case
asdf_config_value_from_file(f, config_path, key) ==
    IF ~IsFile(f, config_path) THEN <<>>
    ELSE Bind(LAMBDA hits : IF hits = <<>> THEN <<>> ELSE <<hits[1][2]>>,
              SelectSeq(ConfigPairs(f[config_path].contents),
                        LAMBDA kv : kv[1] = key))

asdf_config_value(f, key) ==
    LET Local(local_config_path) ==
            IF local_config_path = <<>> THEN <<>>
            ELSE asdf_config_value_from_file(f, local_config_path[1], key)
        OrUser(local) ==
            IF local # <<>> THEN local
            ELSE Bind(LAMBDA user :
                          IF user # <<>> THEN user
                          ELSE IF key = "legacy_version_file" THEN <<"no">>
                          ELSE <<>>,
                      asdf_config_value_from_file(f, asdf_config_file, key))
    IN  Bind(OrUser, Bind(Local, find_file_upwards(f, ".asdfrc")))

\* asdf_run_hook runs a command only when the hook is configured
HookConfigured(f, hook_name) == asdf_config_value(f, hook_name) # <<>>

(***************************************************************************)
(* Tool-version grammar (src/tool_versions.rs).                            *)
(***************************************************************************)
\* ToolVersion::from_str; an Option is <<>> (None) or <<x>> (Some)
ToolVersion_from_str(s) ==
    IF s = "" THEN [tag |-> "Err", val |-> <<>>]
    ELSE IF s = "system" THEN [tag |-> "System", val |-> <<>>]
    ELSE IF StartsWith(s, "ref:") THEN [tag |-> "Ref", val |-> <<SubSeq(s, 5, Len(s))>>]
    ELSE IF s = "latest" THEN [tag |-> "Latest", val |-> <<>>]
    ELSE IF StartsWith(s, "latest:") THEN [tag |-> "Latest", val |-> <<SubSeq(s, 8, Len(s))>>]
    ELSE [tag |-> "Version", val |-> <<s>>]

\* a Display that prints a Ref without its prefix
ToolVersion_fmt_bare(tv) ==
    IF tv.tag = "System" THEN "system"
    ELSE IF tv.tag = "Latest" /\ tv.val = <<>> THEN "latest"
    ELSE tv.val[1]

\* Display for ToolVersion
ToolVersion_fmt(tv) ==
    CASE tv.tag = "Latest" /\ tv.val # <<>> -> "latest:" \o tv.val[1]
      [] tv.tag = "Latest" /\ tv.val = <<>> -> "latest"
      [] tv.tag = "Path" -> "path:" \o tv.val[1]
      [] tv.tag = "Ref" -> "ref:" \o tv.val[1]
      [] tv.tag = "System" -> "system"
      [] tv.tag = "Version" -> tv.val[1]

\* str::split_whitespace: the words between runs of white space
SplitWhitespace(s) ==
    LET words[k \in 0..Len(s)] ==
            IF k = 0 THEN <<"">>
            ELSE IF IsSpace(SubSeq(s, k, k))
            THEN IF words[k - 1][Len(words[k - 1])] = "" THEN words[k - 1]
                 ELSE Append(words[k - 1], "")
            ELSE [words[k - 1] EXCEPT ![Len(words[k - 1])] = @ \o SubSeq(s, k, k)]
    IN  SelectSeq(words[Len(s)], LAMBDA w : w # "")

\* ToolVersions::from_str, the comment filter: the line up to the pound
\* sign without trailing white space
Uncommented(line) ==
    Bind(LAMBDA pound_index :
             IF pound_index # 0 THEN TrimEnd[SubSeq(line, 1, pound_index - 1)]
             ELSE TrimEnd[line],
         Find[line, "#"])

\* remove_tool_version_comments: <<>> for None, <<text>> for Some(text);
\* the value handed back in the Some branch is the line it was given
remove_tool_version_comments(line) ==
    IF Uncommented(line) = "" THEN <<>> ELSE <<line>>

\* ToolVersions::from_str, one line: [ok, name, versions]
ToolVersionsLine(line) ==
    Bind(LAMBDA split :
             IF Len(split) # 2
             THEN [ok |-> FALSE, name |-> "", versions |-> <<>>]
             ELSE IF StartsWith(split[2], "path:")
             THEN [ok |-> ToolVersion_from_str(split[2]).tag # "Err",
                   name |-> split[1],
                   versions |-> <<ToolVersion_from_str(split[2])>>]
             ELSE Bind(LAMBDA tool_versions :
                           [ok |-> \A i \in 1..Len(tool_versions) :
                                      tool_versions[i].tag # "Err",
                            name |-> split[1],
                            versions |-> tool_versions],
                       Bind(LAMBDA ws : [i \in 1..Len(ws) |-> ToolVersion_from_str(ws[i])],
                            SplitWhitespace(split[2]))),
         Splitn2(line, " "))

\* collect::<HashMap>: a later entry of a name replaces the earlier one
Collect(entries) ==
    LET collected[k \in 0..Len(entries)] ==
            IF k = 0 THEN <<>>
            ELSE (entries[k].name :> entries[k].versions) @@ collected[k - 1]
    IN  collected[Len(entries)]

\* ToolVersions::from_str: [ok, tools]; tools maps a name to its versions
ToolVersions_from_str(s) ==
    Bind(LAMBDA entries :
             IF \E i \in 1..Len(entries) : ~entries[i].ok
             THEN [ok |-> FALSE, tools |-> <<>>]
             ELSE [ok |-> TRUE, tools |-> Collect(entries)],
         Bind(LAMBDA ls : [i \in 1..Len(ls) |-> ToolVersionsLine(ls[i])],
              SelectSeq(Bind(LAMBDA ls : [i \in 1..Len(ls) |-> Uncommented(ls[i])],
                             Lines(s)),
                        LAMBDA line : line # "")))

install_type(tv) ==
    CASE tv.tag = "Latest" -> "version"
      [] tv.tag = "Path" -> "path"
      [] tv.tag = "Ref" -> "ref"
      [] tv.tag = "System" -> "system"
      [] OTHER -> "version"

\* what the latest-stable callback of the plugin prints
LatestStable == "0.1.0"

\* get_latest_version, for a plugin with a latest-stable callback
get_latest_version(plugin_name, query) ==
    IF LatestStable = "" THEN <<>> ELSE <<LatestStable>>

\* ToolVersion::install_version (<<>> is None)
install_version(tv, plugin_name) ==
    CASE tv.tag = "Latest" ->
            get_latest_version(plugin_name, IF tv.val = <<>> THEN "" ELSE tv.val[1])
      [] tv.tag = "Path" -> <<>>
      [] tv.tag = "System" -> <<>>
      [] OTHER -> tv.val

(***************************************************************************)
(* Plugin gateway and shim generator (src/lib.rs, src/core/reshim.rs).     *)
(***************************************************************************)
\* list_plugin_bin_paths: the output of list-bin-paths split at spaces,
\* ["bin"] when the plugin has no such callback
ListBinPathsOutput == "bin"

list_plugin_bin_paths(f, plugin_name) ==
    IF IsFile(f, PathJoin(PathJoin(plugin_path(plugin_name), "bin"), "list-bin-paths"))
    THEN Split[ListBinPathsOutput, " "]
    ELSE <<"bin">>

\* list_plugin_exec_paths: [ok, paths]
list_plugin_exec_paths(d, f, plugin_name, full_version) ==
    LET tool_version == ToolVersion_from_str(full_version)
        itype == install_type(tool_version)
        version == install_version(tool_version, plugin_name)
        plugin_shims_path == PathJoin(plugin_path(plugin_name), "shims")
        bin_paths == list_plugin_bin_paths(f, plugin_name)
    IN  IF ~plugin_exists(d, plugin_name) \/ tool_version.tag = "Err" \/ version = <<>>
        THEN [ok |-> FALSE, paths |-> <<>>]
        ELSE [ok |-> TRUE,
              paths |-> (IF IsDir(d, plugin_shims_path) THEN <<plugin_shims_path>> ELSE <<>>)
                        \o [i \in 1..Len(bin_paths) |->
                               PathJoin(install_path(plugin_name, itype, version[1]),
                                        bin_paths[i])]]

\* the executable entries of one directory, in the order read_dir gives
ExecutableEntries(d, f, dir) ==
    SetToSeq({e \in ReadDir(d, f, dir) : IsExecutable(d, f, e)})

RECURSIVE ExecutablesOf(_, _, _)
ExecutablesOf(d, f, bin_paths) ==
    IF bin_paths = <<>> THEN <<>>
    ELSE ExecutableEntries(d, f, bin_paths[1]) \o ExecutablesOf(d, f, Tail(bin_paths))

\* plugin_executables: [ok, paths]; read_dir fails on a missing directory
plugin_executables(d, f, plugin_name, full_version) ==
    LET all_bin_paths == list_plugin_exec_paths(d, f, plugin_name, full_version)
    IN  IF ~all_bin_paths.ok \/ \E i \in 1..Len(all_bin_paths.paths) :
                                    ~IsDir(d, all_bin_paths.paths[i])
        THEN [ok |-> FALSE, paths |-> <<>>]
        ELSE [ok |-> TRUE, paths |-> ExecutablesOf(d, f, all_bin_paths.paths)]

MetadataLine(plugin_name, version) ==
    "# asdf-plugin: " \o plugin_name \o " " \o version

FreshShim(plugin_name, version, executable_name) ==
    "#!/usr/bin/env bash\n" \o MetadataLine(plugin_name, version) \o "\nexec "
    \o CurrentExe \o " exec \"" \o executable_name \o "\" \"$@\"\n"

\* a writer that ignores what the shim file holds
shim_contents_fresh(f, shim_path, plugin_name, version, executable_name) ==
    FreshShim(plugin_name, version, executable_name)

\* write_shim_script, the text to write: the metadata line is put before the
\* first "exec " of an existing shim
shim_contents(f, shim_path, plugin_name, version, executable_name) ==
    IF IsFile(f, shim_path)
    THEN Replacen1(f[shim_path].contents, "exec ",
                   MetadataLine(plugin_name, version) \o "\nexec ")
    ELSE FreshShim(plugin_name, version, executable_name)

\* write_shim_script: the files after it
write_shim_script(d, f, plugin_name, version, executable_path) ==
    IF ~IsExecutable(d, f, executable_path) THEN f
    ELSE LET executable_name == FileName(executable_path)
             shim_path == PathJoin(PathJoin(asdf_data_dir, "shims"), executable_name)
         IN  SetPermissions(
                 WriteFile(f, shim_path,
                           shim_contents(f, shim_path, plugin_name, version,
                                         executable_name)),
                 shim_path, Mode755)

RECURSIVE WriteShims(_, _, _, _, _)
WriteShims(d, f, plugin_name, full_version, paths) ==
    IF paths = <<>> THEN f
    ELSE WriteShims(d, write_shim_script(d, f, plugin_name, full_version, paths[1]),
                    plugin_name, full_version, Tail(paths))

\* generate_shims_for_version: [ok, files]
generate_shims_for_version(d, f, plugin_name, full_version) ==
    LET all_executable_paths == plugin_executables(d, f, plugin_name, full_version)
    IN  IF ~all_executable_paths.ok THEN [ok |-> FALSE, files |-> f]
        ELSE [ok |-> TRUE,
              files |-> WriteShims(d, f, plugin_name, full_version,
                                   all_executable_paths.paths)]

\* list_installed_versions sorts the directory names: the byte order of
\* the names that occur in this model
NameOrder == <<"0.1.0", "0.2.0", "dummy", "foo", "pref-1", "ref-m">>

Rank(name) == CHOOSE i \in 1..Len(NameOrder) : NameOrder[i] = name

RECURSIVE SortNames(_)
SortNames(S) ==
    IF S = {} THEN <<>>
    ELSE LET x == CHOOSE y \in S : \A z \in S : Rank(y) <= Rank(z)
         IN  <<x>> \o SortNames(S \ {x})

\* list_installed_versions: the entries of installs/<plugin>, sorted; the
\* replace of the literal text "^ref-" changes no name without a caret
list_installed_versions(d, f, plugin_name) ==
    IF IsDir(d, plugin_installs_path(plugin_name))
    THEN LET names == SortNames({FileName(e) :
                                  e \in ReadDir(d, f, plugin_installs_path(plugin_name))})
         IN  [i \in 1..Len(names) |-> Replace[names[i], "^ref-", "ref:"]]
    ELSE <<>>

\* plugin_shims: the filter keeps an entry when reading it is Ok, whatever
\* the contains test gives
plugin_shims(d, f, plugin_name, full_version) ==
    {e \in ReadDir(d, f, PathJoin(asdf_data_dir, "shims")) :
        LET read == IF IsFile(f, e)
                    THEN <<Contains(f[e].contents, MetadataLine(plugin_name, full_version))>>
                    ELSE <<>>
        IN  read # <<>>}

\* a reaper that rewrites the shim without dropping the line
remove_shim_for_version_keep(d, f, plugin_name, version, shim) ==
    LET shim_path == PathJoin(shims_path, FileName(shim))
    IN  WriteFile(f, shim_path, Join[Lines(f[shim_path].contents), "\n"])

\* a reaper that drops every metadata line of the plugin, whatever the
\* version
remove_shim_for_version_plugin(d, f, plugin_name, version, shim) ==
    LET shim_path == PathJoin(shims_path, FileName(shim))
        new_contents ==
            Join[SelectSeq(Lines(f[shim_path].contents),
                           LAMBDA line :
                               ~StartsWith(line, "# asdf-plugin: " \o plugin_name \o " ")),
                 "\n"]
    IN  IF ~Contains(new_contents, "# asdf-plugin:")
        THEN RemoveFile(f, shim_path)
        ELSE WriteFile(f, shim_path, new_contents)

\* remove_shim_for_version: the files after it
remove_shim_for_version(d, f, plugin_name, version, shim) ==
    LET shim_path == PathJoin(shims_path, FileName(shim))
        count_installed == Len(list_installed_versions(d, f, plugin_name))
        new_contents ==
            Join[SelectSeq(Lines(f[shim_path].contents),
                           LAMBDA line : line # MetadataLine(plugin_name, version)),
                 "\n"]
    IN  IF ~Contains(new_contents, "# asdf-plugin:") \/ count_installed = 0
        THEN RemoveFile(f, shim_path)
        ELSE WriteFile(f, shim_path, new_contents)

RECURSIVE RemoveShims(_, _, _, _, _)
RemoveShims(d, f, plugin_name, full_version, names) ==
    IF names = <<>> THEN f
    ELSE RemoveShims(d, remove_shim_for_version(d, f, plugin_name, full_version, names[1]),
                     plugin_name, full_version, Tail(names))

\* remove_obsolete_shims, the names it hands to remove_shim_for_version:
\* those of plugin_shims that are not names of executables
ObsoleteShims(d, f, plugin_name, full_version) ==
    LET execs == plugin_executables(d, f, plugin_name, full_version)
    IN  {FileName(s) : s \in plugin_shims(d, f, plugin_name, full_version)}
            \ {FileName(execs.paths[i]) : i \in 1..Len(execs.paths)}

\* what a round of remove_obsolete_shims did: for each shim it handed to
\* remove_shim_for_version, the text before, and after <<text>> when the
\* file is still there and <<>> when it was removed; f is the files before
\* the round and g the files after it
Reaped(d, f, g, plugin_name, full_version) ==
    {[shim |-> name, plugin |-> plugin_name, version |-> full_version,
      before |-> f[PathJoin(shims_path, name)].contents,
      after |-> IF PathJoin(shims_path, name) \in DOMAIN g
                THEN <<g[PathJoin(shims_path, name)].contents>> ELSE <<>>] :
        name \in ObsoleteShims(d, f, plugin_name, full_version)}

\* remove_obsolete_shims: [ok, files]
remove_obsolete_shims(d, f, plugin_name, full_version) ==
    LET shims == {FileName(s) : s \in plugin_shims(d, f, plugin_name, full_version)}
        execs == plugin_executables(d, f, plugin_name, full_version)
        exec_names == {FileName(execs.paths[i]) : i \in 1..Len(execs.paths)}
    IN  IF ~execs.ok THEN [ok |-> FALSE, files |-> f]
        ELSE [ok |-> TRUE,
              files |-> RemoveShims(d, f, plugin_name, full_version,
                                    SetToSeq(shims \ exec_names))]

(***************************************************************************)
(* Version resolver and shim dispatcher (src/lib.rs).  e is the            *)
(* environment: a function from the names of the variables that are set.   *)
(***************************************************************************)
LowerCase == "abcdefghijklmnopqrstuvwxyz"
UpperCase == "ABCDEFGHIJKLMNOPQRSTUVWXYZ"

\* char::to_uppercase on ASCII
UpperChar(c) ==
    LET i == Find[LowerCase, c] IN IF i = 0 THEN c ELSE SubSeq(UpperCase, i, i)

\* str::to_uppercase
ToUpper(s) ==
    LET up[k \in 0..Len(s)] ==
            IF k = 0 THEN "" ELSE up[k - 1] \o UpperChar(SubSeq(s, k, k))
    IN  up[Len(s)]

env_var_for_plugin(plugin_name) == "ASDF_" \o ToUpper(plugin_name) \o "_VERSION"

\* parse_tool_version_line: <<name, versions>>, <<>> is None
parse_tool_version_line(line) ==
    LET pound_index == Find[line, "#"]
        uncommented == IF pound_index # 0
                       THEN TrimEnd[SubSeq(line, 1, pound_index - 1)] ELSE line
        split == Splitn2(uncommented, " ")
    IN  IF Len(split) = 2 THEN split ELSE <<>>

\* parse_asdf_version_file: the versions of the first line of that plugin
parse_asdf_version_file(f, file_path, plugin_name) ==
    IF ~IsFile(f, file_path) THEN <<>>
    ELSE LET hits == SelectSeq(Lines(f[file_path].contents),
                               LAMBDA line :
                                   /\ parse_tool_version_line(line) # <<>>
                                   /\ parse_tool_version_line(line)[1] = plugin_name)
         IN  IF hits = <<>> THEN <<>> ELSE <<parse_tool_version_line(hits[1])[2]>>

\* parse_legacy_version_file: a parse-legacy-file callback prints the
\* version in the file (call trims its output); without one the file is
\* taken as it is
parse_legacy_version_file(f, file_path, plugin_name) ==
    LET parse_legacy_script ==
            PathJoin(PathJoin(plugin_path(plugin_name), "bin"), "parse-legacy-file")
    IN  IF ~IsFile(f, file_path) THEN <<>>
        ELSE IF IsFile(f, parse_legacy_script) THEN <<TrimEnd[f[file_path].contents]>>
        ELSE <<f[file_path].contents>>

\* a VersionSpecifier: the version text and where it came from
VersionSpecifier(version, kind, origin) ==
    [version |-> version, source |-> [kind |-> kind, origin |-> origin]]

\* version_in_dir: .tool-versions first, then the legacy files in order;
\* <<>> is None
version_in_dir(f, plugin_name, search_path, legacy_filenames) ==
    LET tool_versions_path == PathJoin(search_path, ".tool-versions")
        WithLegacy(asdf_version) ==
            IF asdf_version # <<>>
            THEN <<VersionSpecifier(asdf_version[1], "ToolVersion", tool_versions_path)>>
            ELSE Bind(LAMBDA hits : IF hits = <<>> THEN <<>> ELSE <<hits[1]>>,
                      SelectSeq(
                          [i \in 1..Len(legacy_filenames) |->
                              Bind(LAMBDA legacy_version :
                                       IF legacy_version = <<>> THEN <<>>
                                       ELSE VersionSpecifier(
                                                legacy_version[1], "Legacy",
                                                PathJoin(search_path, legacy_filenames[i])),
                                   parse_legacy_version_file(
                                       f, PathJoin(search_path, legacy_filenames[i]),
                                       plugin_name))],
                          LAMBDA v : v # <<>>))
    IN  Bind(WithLegacy, parse_asdf_version_file(f, tool_versions_path, plugin_name))

\* what the list-legacy-filenames callback of a plugin prints
ListLegacyFilenamesOutput(plugin_name) == "." \o plugin_name \o "-version"

\* Upwards: the directories from path up to the root, nearest first
RECURSIVE Upwards(_)
\* a walk that looks into the search directory only
UpwardsOnlySelf(path) == <<path>>

Upwards(path) == IF path = "/" THEN <<"/">> ELSE <<path>> \o Upwards(Parent(path))

\* find_versions, a resolver that reads legacy files whatever the rc says
LegacyEnabledAlways(f, legacy_config, plugin_name) == TRUE

\* find_versions, the condition under which list-legacy-filenames is run
LegacyEnabled(f, legacy_config, plugin_name) ==
    /\ legacy_config = <<"yes">>
    /\ IsFile(f, PathJoin(PathJoin(plugin_path(plugin_name), "bin"),
                          "list-legacy-filenames"))

\* find_versions, a walk that stops at the root
SearchPlacesNoHome(search_path) == Upwards(search_path)

\* find_versions, the directories looked into: search_path and its
\* ancestors, nearest first, then the home directory
SearchPlaces(search_path) == Upwards(search_path) \o <<Home>>

\* find_versions, a resolver that does not look at the environment
version_from_env_unset(e, plugin_name) == <<>>

\* version_from_env: <<>> is None
version_from_env(e, plugin_name) ==
    IF env_var_for_plugin(plugin_name) \in DOMAIN e
    THEN <<e[env_var_for_plugin(plugin_name)]>> ELSE <<>>

\* find_versions: <<>> is None
find_versions(e, f, plugin_name, search_path) ==
    LET InDirs(legacy_filenames) ==
            Bind(LAMBDA places :
                     SelectSeq([i \in 1..Len(places) |->
                                   version_in_dir(f, plugin_name, places[i],
                                                  legacy_filenames)],
                               LAMBDA v : v # <<>>),
                 SearchPlaces(search_path))
        default_var == "ASDF_DEFAULT_TOOL_VERSIONS_FILENAME"
        InDefault(versions) ==
            IF versions = <<>> THEN <<>>
            ELSE <<VersionSpecifier(versions[1], "ToolVersion", e[default_var])>>
        Found(in_dirs) ==
            IF in_dirs # <<>> THEN in_dirs[1]
            ELSE IF default_var \in DOMAIN e
            THEN Bind(InDefault, parse_asdf_version_file(f, e[default_var], plugin_name))
            ELSE <<>>
        FromFiles(version) ==
            IF version # <<>>
            THEN <<VersionSpecifier(version[1], "EnvVar", env_var_for_plugin(plugin_name))>>
            ELSE Bind(Found,
                      Bind(InDirs,
                           IF LegacyEnabled(f, asdf_config_value(f, "legacy_version_file"),
                                            plugin_name)
                           THEN Split[ListLegacyFilenamesOutput(plugin_name), " "]
                           ELSE <<>>))
    IN  Bind(FromFiles, version_from_env(e, plugin_name))

\* preset_version_for: the version text find_versions gives in the
\* working directory
preset_version_for(e, f, plugin_name) ==
    Bind(LAMBDA spec : IF spec = <<>> THEN <<>> ELSE <<spec[1].version>>,
         find_versions(e, f, plugin_name, Cwd))

\* the text after "# asdf-plugin: " of every metadata line
MetadataEntries(contents) ==
    Bind(LAMBDA ms : [i \in 1..Len(ms) |-> SubSeq(ms[i], 16, Len(ms[i]))],
         SelectSeq(Lines(contents), LAMBDA line : StartsWith(line, "# asdf-plugin: ")))

\* shim_plugin_versions: [ok, v]; ok is FALSE for an unknown shim
shim_plugin_versions(d, f, executable) ==
    Bind(LAMBDA shim_path :
             IF ~IsExecutable(d, f, shim_path) THEN [ok |-> FALSE, v |-> <<>>]
             ELSE [ok |-> TRUE, v |-> MetadataEntries(f[shim_path].contents)],
         PathJoin(shims_path, FileName(executable)))

FirstWord(s) == Split[s, " "][1]

\* shim_plugins
shim_plugins(d, f, executable) ==
    Bind(LAMBDA pv : [i \in 1..Len(pv) |-> FirstWord(pv[i])],
         shim_plugin_versions(d, f, executable).v)

\* shim_versions: the metadata entries, then `<plugin> system` for each
shim_versions(d, f, shim_name) ==
    Bind(LAMBDA pv : pv \o [i \in 1..Len(pv) |-> FirstWord(pv[i]) \o " system"],
         shim_plugin_versions(d, f, shim_name).v)

\* a dispatcher that takes whatever version the resolver gives
UsableAny(plugin_version, plugin_shim_version) == TRUE

\* select_version, the test of a resolved version against a shim entry
Usable(plugin_version, plugin_shim_version) ==
    \/ plugin_version = plugin_shim_version
    \/ StartsWith(plugin_version, "path:")

\* select_version, the words of the entries of the shim
ShimEntries(versions) == [i \in 1..Len(versions) |-> Split[versions[i], " "]]

\* select_version, the loop over the entries of the shim for one version:
\* "hit" at the first usable entry, "panic" when an entry without a second
\* word (splitted[1]) comes before it, "none" otherwise
EntryEvent(entries, plugin_name, plugin_version) ==
    LET stops == {k \in 1..Len(entries) :
                     \/ Len(entries[k]) < 2
                     \/ /\ plugin_name = entries[k][1]
                        /\ Usable(plugin_version, entries[k][2])}
    IN  IF stops = {} THEN "none"
        ELSE IF Len(entries[CHOOSE k \in stops : \A j \in stops : k <= j]) < 2
        THEN "panic"
        ELSE "hit"

\* select_version, the loop over the versions set for one plugin: how the
\* loop ends at the first version that ends it, <<>> when none does
SelectOfPlugin(entries, plugin_name, version_spec) ==
    IF version_spec = <<>> THEN <<>>
    ELSE Bind(LAMBDA events : IF events = <<>> THEN <<>> ELSE events[1],
              SelectSeq(
                  Bind(LAMBDA usable_plugin_versions :
                           [i \in 1..Len(usable_plugin_versions) |->
                               [event |-> EntryEvent(entries, plugin_name,
                                                     usable_plugin_versions[i]),
                                v |-> plugin_name \o " " \o usable_plugin_versions[i]]],
                       Split[version_spec[1].version, " "]),
                  LAMBDA r : r.event # "none"))

\* a dispatcher that lets the last plugin of the shim that has a usable
\* version decide
SelectAmongLast(e, f, entries, plugins) ==
    Bind(LAMBDA ended :
             IF ended = <<>> THEN [ok |-> TRUE, v |-> <<>>]
             ELSE IF ended[Len(ended)].event = "panic" THEN [ok |-> FALSE, v |-> <<>>]
             ELSE [ok |-> TRUE, v |-> <<ended[Len(ended)].v>>],
         SelectSeq(
             [i \in 1..Len(plugins) |->
                 Bind(LAMBDA version_spec :
                          SelectOfPlugin(entries, plugins[i], version_spec),
                      find_versions(e, f, plugins[i], Cwd))],
             LAMBDA r : r # <<>>))

\* select_version, the loop over the plugins of the shim
SelectAmong(e, f, entries, plugins) ==
    Bind(LAMBDA ended :
             IF ended = <<>> THEN [ok |-> TRUE, v |-> <<>>]
             ELSE IF ended[1].event = "panic" THEN [ok |-> FALSE, v |-> <<>>]
             ELSE [ok |-> TRUE, v |-> <<ended[1].v>>],
         SelectSeq(
             [i \in 1..Len(plugins) |->
                 Bind(LAMBDA version_spec :
                          SelectOfPlugin(entries, plugins[i], version_spec),
                      find_versions(e, f, plugins[i], Cwd))],
             LAMBDA r : r # <<>>))

\* select_version: [ok, v]; v is <<"plugin version">> or <<>> (None); ok is
\* FALSE for an unknown shim and when the loops reach a metadata entry
\* without a version
select_version(e, d, f, shim_name) ==
    IF ~shim_plugin_versions(d, f, shim_name).ok THEN [ok |-> FALSE, v |-> <<>>]
    ELSE Bind(LAMBDA entries :
                  Bind(LAMBDA plugins : SelectAmong(e, f, entries, plugins),
                       shim_plugins(d, f, shim_name)),
              ShimEntries(shim_versions(d, f, shim_name)))

\* preset_versions: what the resolver gives for the plugins of the shim
preset_versions(e, d, f, shim_name) ==
    Bind(LAMBDA plugins :
             SelectSeq([i \in 1..Len(plugins) |-> preset_version_for(e, f, plugins[i])],
                       LAMBDA v : v # <<>>),
         shim_plugins(d, f, shim_name))

\* select_from_preset_version: the first resolved version string that
\* contains all entries of the shim joined by spaces
select_from_preset_version(e, d, f, shim_name) ==
    Bind(LAMBDA versions :
             IF versions = <<>> THEN <<>>
             ELSE Bind(LAMBDA hits : IF hits = <<>> THEN <<>> ELSE hits[1],
                       SelectSeq(preset_versions(e, d, f, shim_name),
                                 LAMBDA v : Contains(v[1], Join[versions, " "]))),
         shim_versions(d, f, shim_name))

(***************************************************************************)
(* The plugins, the rc files and the data directory the CLI starts from.   *)
(***************************************************************************)
Tools == {"dummy", "foo"}
Versions == {"0.1.0", "ref:m"}
ExeNames == {"a", "b"}

Script == [contents |-> "", mode |-> Mode755]

BaseDirs ==
    {"/d", "/d/plugins", "/d/plugins/dummy", "/d/plugins/dummy/bin",
     "/d/plugins/foo", "/d/plugins/foo/bin", "/d/plugins/foo/shims",
     "/h", "/w", "/w/p"}

\* dummy has a download callback; foo is a legacy plugin (no download) with
\* a list-bin-paths callback and a shims directory of its own
PluginFiles ==
    [q \in {"/d/plugins/dummy/bin/install", "/d/plugins/dummy/bin/download",
            "/d/plugins/dummy/bin/latest-stable",
            "/d/plugins/foo/bin/install", "/d/plugins/foo/bin/list-bin-paths",
            "/d/plugins/foo/bin/latest-stable",
            "/d/plugins/foo/shims/b"} |-> Script]

AllHooks(plugin_name) ==
    "pre_asdf_install_" \o plugin_name \o " = echo pre\n"
    \o "post_asdf_install_" \o plugin_name \o " = echo post\n"
    \o "pre_asdf_reshim_" \o plugin_name \o " = echo pre\n"
    \o "post_asdf_reshim_" \o plugin_name \o " = echo post\n"

Text(t) == [contents |-> t, mode |-> Mode644]

\* the rc files of a run: none; the user's rc keeps downloads; the user's
\* rc keeps downloads but the project's .asdfrc says no; hooks for dummy
RcFixtures ==
    { <<>>,
      "/h/.asdfrc" :> Text("always_keep_download = yes\n"),
      ("/h/.asdfrc" :> Text("always_keep_download = yes\n"))
          @@ ("/w/.asdfrc" :> Text("# project\nalways_keep_download=no\n")),
      "/h/.asdfrc" :> Text(AllHooks("dummy")) }

\* the data directory of a run: empty, or with dummy 0.1.0 already present
\* under installs/ (as a test fixture or another asdf leaves it)
InstallFixtures ==
    { [dirs |-> {}, files |-> <<>>],
      [dirs |-> {"/d/installs", "/d/installs/dummy", "/d/installs/dummy/0.1.0",
                 "/d/installs/dummy/0.1.0/bin"},
       files |-> [q \in {"/d/installs/dummy/0.1.0/bin/a",
                         "/d/installs/dummy/0.1.0/bin/b"} |-> Script]] }

NoEnv == <<>>
NoWriters == <<>>
NoOp == [kind |-> "none", plugin |-> "", full_version |-> "", keep |-> FALSE]

Init ==
    /\ \E rc \in RcFixtures, inst \in InstallFixtures :
          /\ dirs = BaseDirs \cup inst.dirs
          /\ files = PluginFiles @@ rc @@ inst.files
    /\ pc = "idle"
    /\ op = NoOp
    /\ queue = <<>>
    /\ result = "none"
    /\ log = <<>>
    /\ nops = 0
    /\ env = NoEnv
    /\ selected = <<>>
    /\ found = <<>>
    /\ batch = <<>>
    /\ parsed = <<>>
    /\ wpc = NoWriters
    /\ wbuf = NoWriters
    /\ stale = {}
    /\ reaped = {}

(***************************************************************************)
(* The CLI process.  An operation runs from one subprocess (plugin         *)
(* callback or hook) to the next; every action below is the code between   *)
(* two such suspension points.                                             *)
(***************************************************************************)
\* a call that reports Ok whatever the exit status
call_ignore(exit_success) == TRUE

\* call: Ok exactly when the subprocess exits with success
call(exit_success) == exit_success

Finish(r) ==
    /\ pc' = "idle"
    /\ result' = r
    /\ queue' = <<>>

Logged(step, ok) == Append(log, <<step, ok>>)

\* what install_tool_version computes from its arguments
OpType(o) == install_type(ToolVersion_from_str(o.full_version))
OpVersion(o) == install_version(ToolVersion_from_str(o.full_version), o.plugin)[1]
OpInstallPath(o) == install_path(o.plugin, OpType(o), OpVersion(o))
OpDownloadPath(o) == download_path(o.plugin, OpType(o), OpVersion(o))[1]

\* no early return for an installed version
AlreadyInstalledNever(d, o) == FALSE

\* install_tool_version: `if install_path.is_dir()`
AlreadyInstalled(d, o) == IsDir(d, OpInstallPath(o))

\* a cleanup that forgets --keep-download
CleanupDownloadIgnoreKeep(d, keep_download, always_keep_download, dpath) ==
    always_keep_download # "yes" /\ IsDir(d, dpath)

\* install_tool_version: the condition of the download cleanup
CleanupDownload(d, keep_download, always_keep_download, dpath) ==
    ~keep_download /\ always_keep_download # "yes" /\ IsDir(d, dpath)

\* ensure_shims_dir
ensure_shims_dir(d) == IF IsDir(d, shims_path) THEN d ELSE d \cup {shims_path}

\* install_tool_version, up to the pre_asdf_install hook (plugin with a
\* download callback) or up to the install callback (legacy plugin)
InstallBegin(plugin_name, full_version, keep_download) ==
    LET o == [kind |-> "install", plugin |-> plugin_name,
              full_version |-> full_version, keep |-> keep_download]
        tool_version == ToolVersion_from_str(full_version)
        d1 == CreateDirAll(CreateDirAll(dirs, plugin_installs_path(plugin_name)),
                           plugin_downloads_path(plugin_name))
        download_bin == PathJoin(PathJoin(plugin_path(plugin_name), "bin"), "download")
    IN  /\ pc = "idle"
        /\ UNCHANGED <<dispVars, concVars>>
        /\ nops < MaxInstalls
        /\ nops' = nops + 1
        /\ op' = o
        /\ log' = <<>>
        /\ UNCHANGED files
        /\ IF ~plugin_exists(dirs, plugin_name)
           THEN Finish("err") /\ UNCHANGED dirs
           ELSE IF full_version = "system"
           THEN Finish("ok") /\ UNCHANGED dirs
           ELSE IF tool_version.tag = "Err" \/ install_version(tool_version, plugin_name) = <<>>
           THEN Finish("err") /\ UNCHANGED dirs
           ELSE IF AlreadyInstalled(d1, o)
           THEN Finish("ok") /\ dirs' = d1
           ELSE IF IsFile(files, download_bin)
           THEN IF CanCreateDir(d1, files, OpDownloadPath(o))
                THEN /\ dirs' = d1 \cup {OpDownloadPath(o)}
                     /\ pc' = "pre_install_hook"
                     /\ UNCHANGED <<result, queue>>
                ELSE Finish("err") /\ dirs' = d1
           ELSE IF CanCreateDir(d1, files, OpInstallPath(o))
                THEN /\ dirs' = d1 \cup {OpInstallPath(o)}
                     /\ pc' = "install"
                     /\ UNCHANGED <<result, queue>>
                ELSE Finish("err") /\ dirs' = d1

\* asdf_run_hook pre_asdf_install_<plugin>, then the download callback
\* is started
PreInstallHook ==
    /\ pc = "pre_install_hook"
    /\ UNCHANGED <<dispVars, concVars>>
    /\ UNCHANGED <<dirs, files, op, nops>>
    /\ IF HookConfigured(files, "pre_asdf_install_" \o op.plugin)
       THEN \E ok \in BOOLEAN :
               /\ log' = Logged("pre_asdf_install", ok)
               /\ IF call(ok) THEN pc' = "download" /\ UNCHANGED <<result, queue>>
                        ELSE Finish("err")
       ELSE /\ pc' = "download"
            /\ UNCHANGED <<log, result, queue>>

\* the download callback returns; on success the install directory is
\* created and the install callback is started
Download ==
    /\ pc = "download"
    /\ UNCHANGED <<dispVars, concVars>>
    /\ UNCHANGED <<op, nops>>
    /\ \E ok \in BOOLEAN :
          /\ log' = Logged("download", ok)
          /\ IF ~call(ok) THEN Finish("err") /\ UNCHANGED <<dirs, files>>
             ELSE LET f1 == WriteFile(files, PathJoin(OpDownloadPath(op), "archive"), "")
                  IN  /\ files' = f1
                      /\ IF CanCreateDir(dirs, f1, OpInstallPath(op))
                         THEN /\ dirs' = dirs \cup {OpInstallPath(op)}
                              /\ pc' = "install"
                              /\ UNCHANGED <<result, queue>>
                         ELSE Finish("err") /\ UNCHANGED dirs

\* what a successful install callback leaves in <install_path>/bin
InstallOutcomes == {{"a", "b"}, {"a"}}

Installed(f, ipath, exes) ==
    [q \in {PathJoin(PathJoin(ipath, "bin"), e) : e \in exes} |-> Script] @@ f

\* the install callback returns; on success the download directory is
\* cleaned up and reshim_plugin runs up to its pre_asdf_reshim hook
InstallCallback ==
    /\ pc = "install"
    /\ UNCHANGED <<dispVars, concVars>>
    /\ UNCHANGED <<op, nops>>
    /\ \/ /\ ~call(FALSE)
          /\ log' = Logged("install", FALSE)
          /\ Finish("err")
          /\ UNCHANGED <<dirs, files>>
       \/ \E exes \in InstallOutcomes,
             d1 \in {dirs \cup {PathJoin(OpInstallPath(op), "bin")}} :
          \E f1 \in {Installed(files, OpInstallPath(op), exes)} :
          \E v \in {asdf_config_value(f1, "always_keep_download")} :
             LET always_keep_download == IF v = <<>> THEN "" ELSE v[1]
                 cleanup == CleanupDownload(d1, op.keep, always_keep_download,
                                            OpDownloadPath(op))
                 d2 == IF cleanup THEN RemoveDirAllDirs(d1, OpDownloadPath(op)) ELSE d1
                 f2 == IF cleanup THEN RemoveDirAllFiles(f1, OpDownloadPath(op)) ELSE f1
             IN  /\ log' = IF cleanup
                           THEN Append(Logged("install", TRUE), <<"remove_download", TRUE>>)
                           ELSE Logged("install", TRUE)
                 /\ files' = f2
                 /\ IF plugin_exists(d2, op.plugin)
                    THEN /\ dirs' = ensure_shims_dir(d2)
                         /\ pc' = "pre_reshim_hook"
                         /\ UNCHANGED <<result, queue>>
                    ELSE Finish("err") /\ dirs' = d2

\* one round of reshim_plugin for op.full_version: the pre_asdf_reshim hook,
\* then generate_shims_for_version (and, for all versions,
\* remove_obsolete_shims), up to the post_asdf_reshim hook
PreReshimHook ==
    /\ pc = "pre_reshim_hook"
    /\ UNCHANGED <<env, selected, found, parsed, batch, concVars>>
    /\ UNCHANGED <<op, nops>>
    /\ \E ok \in (IF HookConfigured(files, "pre_asdf_reshim_" \o op.plugin)
                  THEN BOOLEAN ELSE {TRUE}) :
          \E gen \in {generate_shims_for_version(dirs, files, op.plugin,
                                                  op.full_version)} :
          \E reap \in {IF op.kind = "reshim_all" /\ gen.ok
                       THEN remove_obsolete_shims(dirs, gen.files, op.plugin,
                                                  op.full_version)
                       ELSE gen} :
          LET log1 == IF HookConfigured(files, "pre_asdf_reshim_" \o op.plugin)
                      THEN Logged("pre_asdf_reshim", ok) ELSE log
              \* install_path, called by list_plugin_bin_paths, creates
              \* installs/<plugin>
              d1 == IF list_plugin_exec_paths(dirs, files, op.plugin, op.full_version).ok
                    THEN CreateDirAll(dirs, plugin_installs_path(op.plugin))
                    ELSE dirs
          IN  IF ~call(ok)
              THEN /\ log' = log1
                   /\ Finish("err")
                   /\ UNCHANGED <<dirs, files, reaped>>
              ELSE /\ log' = Append(log1, <<"reshim", reap.ok>>)
                   /\ dirs' = d1
                   /\ files' = reap.files
                   /\ reaped' = IF op.kind = "reshim_all" /\ reap.ok
                                THEN Reaped(dirs, gen.files, reap.files, op.plugin,
                                            op.full_version)
                                ELSE {}
                   /\ IF reap.ok
                      THEN pc' = "post_reshim_hook" /\ UNCHANGED <<result, queue>>
                      ELSE Finish("err")

\* reshim_plugin of all versions: `replace("ref-", "ref:")` on the name of
\* the install directory
full_version_name(version) == Replace[FileName(version), "ref-", "ref:"]

\* the post_asdf_reshim hook, then what follows the round: the
\* post_asdf_install hook (install), the next version (all versions), Ok
PostReshimHook ==
    /\ pc = "post_reshim_hook"
    /\ UNCHANGED <<dispVars, concVars>>
    /\ UNCHANGED <<dirs, files, nops>>
    /\ \E ok \in (IF HookConfigured(files, "post_asdf_reshim_" \o op.plugin)
                  THEN BOOLEAN ELSE {TRUE}) :
          /\ log' = IF HookConfigured(files, "post_asdf_reshim_" \o op.plugin)
                    THEN Logged("post_asdf_reshim", ok) ELSE log
          /\ IF ~call(ok) THEN Finish("err") /\ UNCHANGED op
             ELSE IF op.kind = "install"
             THEN pc' = "post_install_hook" /\ UNCHANGED <<op, result, queue>>
             ELSE IF queue # <<>>
             THEN /\ op' = [op EXCEPT !.full_version = full_version_name(Head(queue))]
                  /\ queue' = Tail(queue)
                  /\ pc' = "pre_reshim_hook"
                  /\ UNCHANGED result
             ELSE Finish("ok") /\ UNCHANGED op

\* asdf_run_hook post_asdf_install_<plugin>; install_tool_version returns
PostInstallHook ==
    /\ pc = "post_install_hook"
    /\ UNCHANGED <<dispVars, concVars>>
    /\ UNCHANGED <<dirs, files, op, nops>>
    /\ \E ok \in (IF HookConfigured(files, "post_asdf_install_" \o op.plugin)
                  THEN BOOLEAN ELSE {TRUE}) :
          /\ log' = IF HookConfigured(files, "post_asdf_install_" \o op.plugin)
                    THEN Logged("post_asdf_install", ok) ELSE log
          /\ Finish(IF call(ok) THEN "ok" ELSE "err")

\* reshim_plugin(plugin, Some(full_version)), up to its pre_asdf_reshim hook
ReshimBegin(plugin_name, full_version) ==
    /\ pc = "idle"
    /\ UNCHANGED <<dispVars, concVars>>
    /\ nops < MaxReshims
    /\ nops' = nops + 1
    /\ op' = [kind |-> "reshim", plugin |-> plugin_name,
              full_version |-> full_version, keep |-> FALSE]
    /\ log' = <<>>
    /\ UNCHANGED files
    /\ IF plugin_exists(dirs, plugin_name)
       THEN /\ dirs' = ensure_shims_dir(dirs)
            /\ pc' = "pre_reshim_hook"
            /\ UNCHANGED <<result, queue>>
       ELSE Finish("err") /\ UNCHANGED dirs

\* reshim_plugin(plugin, None), up to the first pre_asdf_reshim hook
ReshimAllBegin(plugin_name) ==
    LET versions == list_installed_versions(dirs, files, plugin_name)
    IN  /\ pc = "idle"
        /\ UNCHANGED <<dispVars, concVars>>
        /\ nops < MaxReshims
        /\ nops' = nops + 1
        /\ log' = <<>>
            /\ UNCHANGED files
        /\ IF ~plugin_exists(dirs, plugin_name)
           THEN /\ op' = [kind |-> "reshim_all", plugin |-> plugin_name,
                          full_version |-> "", keep |-> FALSE]
                /\ Finish("err") /\ UNCHANGED dirs
           ELSE /\ dirs' = ensure_shims_dir(dirs)
                /\ IF versions = <<>>
                   THEN /\ op' = [kind |-> "reshim_all", plugin |-> plugin_name,
                                  full_version |-> "", keep |-> FALSE]
                        /\ Finish("ok")
                   ELSE /\ op' = [kind |-> "reshim_all", plugin |-> plugin_name,
                                  full_version |-> full_version_name(versions[1]),
                                  keep |-> FALSE]
                        /\ queue' = Tail(versions)
                        /\ pc' = "pre_reshim_hook"
                        /\ UNCHANGED result

\* SIGINT while install_tool_version runs: no handler is installed, the
\* process terminates where it is
Interrupt ==
    /\ pc # "idle"
    /\ UNCHANGED <<dispVars, concVars>>
    /\ op.kind = "install"
    /\ pc' = "idle"
    /\ result' = "killed"
    /\ queue' = <<>>
    /\ UNCHANGED <<dirs, files, op, log, nops>>

\* outside the CLI: an executable is removed from an installed version
RemoveExecutable(path) ==
    /\ pc = "idle"
    /\ UNCHANGED <<dispVars, concVars>>
    /\ path \in DOMAIN files
    /\ Under(path, installs_path)
    /\ nops < MaxReshims
    /\ nops' = nops + 1
    /\ files' = RemoveFile(files, path)
    /\ op' = NoOp
    /\ result' = "none"
    /\ log' = <<>>
    /\ UNCHANGED <<dirs, pc, queue>>

\* the install lifecycle: any sequence of installs, with SIGINT
Next ==
    \/ \E t \in Tools, v \in Versions, k \in BOOLEAN : InstallBegin(t, v, k)
    \/ PreInstallHook
    \/ Download
    \/ InstallCallback
    \/ PreReshimHook
    \/ PostReshimHook
    \/ PostInstallHook
    \/ Interrupt

Spec == Init /\ [][Next]_vars

\* the data directory of the shim generator's runs: dummy 0.1.0 (a, b),
\* dummy ref:m (a) and foo 0.1.0 (a) are installed; no shim exists yet
ShimFixture ==
    [dirs |-> {"/d/installs", "/d/installs/dummy", "/d/installs/foo",
               "/d/installs/dummy/0.1.0", "/d/installs/dummy/0.1.0/bin",
               "/d/installs/dummy/ref-m", "/d/installs/dummy/ref-m/bin",
               "/d/installs/foo/0.1.0", "/d/installs/foo/0.1.0/bin"},
     files |-> [q \in {"/d/installs/dummy/0.1.0/bin/a", "/d/installs/dummy/0.1.0/bin/b",
                       "/d/installs/dummy/ref-m/bin/a",
                       "/d/installs/foo/0.1.0/bin/a"} |-> Script]]

ShimRcFixtures == { <<>>, "/h/.asdfrc" :> Text(AllHooks("dummy")) }

InitShim ==
    /\ \E rc \in ShimRcFixtures :
          /\ dirs = BaseDirs \cup ShimFixture.dirs
          /\ files = PluginFiles @@ rc @@ ShimFixture.files
    /\ pc = "idle"
    /\ op = NoOp
    /\ queue = <<>>
    /\ result = "none"
    /\ log = <<>>
    /\ nops = 0
    /\ env = NoEnv
    /\ selected = <<>>
    /\ found = <<>>
    /\ batch = <<>>
    /\ parsed = <<>>
    /\ wpc = NoWriters
    /\ wbuf = NoWriters
    /\ stale = {}
    /\ reaped = {}

\* the shim generator: any sequence of reshims, with executables removed
\* from the installed versions in between
NextShim ==
    \/ \E t \in Tools, v \in Versions : ReshimBegin(t, v)
    \/ \E t \in Tools : ReshimAllBegin(t)
    \/ PreReshimHook
    \/ PostReshimHook
    \/ \E path \in DOMAIN files : RemoveExecutable(path)

SpecShim == InitShim /\ [][NextShim]_vars

(***************************************************************************)
(* Reshim of all versions over install directories whose names hold        *)
(* `ref-`: at the start (a ref) and inside (a version named pref-1).       *)
(***************************************************************************)
RefFixture ==
    [dirs |-> {"/d/installs", "/d/installs/dummy",
               "/d/installs/dummy/0.1.0", "/d/installs/dummy/0.1.0/bin",
               "/d/installs/dummy/pref-1", "/d/installs/dummy/pref-1/bin",
               "/d/installs/dummy/ref-m", "/d/installs/dummy/ref-m/bin"},
     files |-> [q \in {"/d/installs/dummy/0.1.0/bin/a",
                       "/d/installs/dummy/pref-1/bin/a",
                       "/d/installs/dummy/pref-1/bin/b",
                       "/d/installs/dummy/ref-m/bin/a"} |-> Script]]

InitRef ==
    /\ \E rc \in ShimRcFixtures :
          /\ dirs = BaseDirs \cup RefFixture.dirs
          /\ files = PluginFiles @@ rc @@ RefFixture.files
    /\ pc = "idle"
    /\ op = NoOp
    /\ queue = <<>>
    /\ result = "none"
    /\ log = <<>>
    /\ nops = 0
    /\ env = NoEnv
    /\ selected = <<>>
    /\ found = <<>>
    /\ batch = <<>>
    /\ parsed = <<>>
    /\ wpc = NoWriters
    /\ wbuf = NoWriters
    /\ stale = {}
    /\ reaped = {}

NextRef ==
    \/ \E t \in Tools : ReshimAllBegin(t)
    \/ PreReshimHook
    \/ PostReshimHook
    \/ \E path \in DOMAIN files : RemoveExecutable(path)

SpecRef == InitRef /\ [][NextRef]_vars

\* a second plugin whose name ends in "exec": both plugins provide a
NameTools == {"dummy", "pyexec"}

NamesFixture ==
    [dirs |-> {"/d/plugins/pyexec", "/d/plugins/pyexec/bin",
               "/d/installs", "/d/installs/dummy", "/d/installs/pyexec",
               "/d/installs/dummy/0.1.0", "/d/installs/dummy/0.1.0/bin",
               "/d/installs/dummy/ref-m", "/d/installs/dummy/ref-m/bin",
               "/d/installs/pyexec/0.1.0", "/d/installs/pyexec/0.1.0/bin"},
     files |-> [q \in {"/d/plugins/pyexec/bin/install",
                       "/d/installs/dummy/0.1.0/bin/a", "/d/installs/dummy/0.1.0/bin/b",
                       "/d/installs/dummy/ref-m/bin/a",
                       "/d/installs/pyexec/0.1.0/bin/a"} |-> Script]]

InitNames ==
    /\ \E rc \in ShimRcFixtures :
          /\ dirs = BaseDirs \cup NamesFixture.dirs
          /\ files = PluginFiles @@ rc @@ NamesFixture.files
    /\ pc = "idle"
    /\ op = NoOp
    /\ queue = <<>>
    /\ result = "none"
    /\ log = <<>>
    /\ nops = 0
    /\ env = NoEnv
    /\ selected = <<>>
    /\ found = <<>>
    /\ batch = <<>>
    /\ parsed = <<>>
    /\ wpc = NoWriters
    /\ wbuf = NoWriters
    /\ stale = {}
    /\ reaped = {}

\* the shim generator over these plugins: any sequence of reshims
NextNames ==
    \/ \E t \in NameTools, v \in Versions : ReshimBegin(t, v)
    \/ \E t \in NameTools : ReshimAllBegin(t)
    \/ PreReshimHook
    \/ PostReshimHook

SpecNames == InitNames /\ [][NextNames]_vars

(***************************************************************************)
(* Two CLI processes that reshim at the same time.  Each runs               *)
(* reshim_plugin(plugin, Some(version)); the steps of write_shim_script     *)
(* are its filesystem calls: read_to_string, write, set_permissions.        *)
(***************************************************************************)
Writers == {1, 2}

Other(w) == 3 - w

\* the (plugin, version) pairs the two processes are started with
WriterJobs ==
    {job \in [Writers -> {<<"dummy", "0.1.0">>, <<"dummy", "ref:m">>,
                          <<"foo", "0.1.0">>}] : job[1] # job[2]}

InitConc ==
    /\ dirs = BaseDirs \cup ShimFixture.dirs
    /\ files = PluginFiles @@ ShimFixture.files
    /\ pc = "idle"
    /\ op = NoOp
    /\ queue = <<>>
    /\ result = "none"
    /\ log = <<>>
    /\ nops = 0
    /\ env = NoEnv
    /\ selected = <<>>
    /\ found = <<>>
    /\ batch = <<>>
    /\ parsed = <<>>
    /\ \E job \in WriterJobs :
          wpc = [w \in Writers |-> [at |-> "start", plugin |-> job[w][1],
                                    version |-> job[w][2], todo |-> <<>>]]
    /\ wbuf = [w \in Writers |-> [seen |-> <<>>, contents |-> ""]]
    /\ stale = {}
    /\ reaped = {}

\* what read_to_string would give: <<>> when there is no such file
Seen(f, path) == IF IsFile(f, path) THEN <<f[path].contents>> ELSE <<>>

WriterShimPath(w) ==
    PathJoin(PathJoin(asdf_data_dir, "shims"), FileName(Head(wpc[w].todo)))

\* the loop of generate_shims_for_version moves to the next executable
WriterNext(w) ==
    [wpc EXCEPT ![w].todo = Tail(@),
                ![w].at = IF Tail(wpc[w].todo) = <<>> THEN "done" ELSE "read"]

\* reshim_plugin up to the loop of generate_shims_for_version
WriterStart(w) ==
    /\ wpc[w].at = "start"
    /\ UNCHANGED <<cliVars, dispVars, files, wbuf, stale>>
    /\ \E execs \in {plugin_executables(dirs, files, wpc[w].plugin, wpc[w].version)} :
          IF ~plugin_exists(dirs, wpc[w].plugin)
          THEN wpc' = [wpc EXCEPT ![w].at = "failed"] /\ UNCHANGED dirs
          ELSE /\ dirs' = CreateDirAll(ensure_shims_dir(dirs),
                                       plugin_installs_path(wpc[w].plugin))
               /\ wpc' = [wpc EXCEPT
                             ![w].todo = execs.paths,
                             ![w].at = IF ~execs.ok THEN "failed"
                                       ELSE IF execs.paths = <<>> THEN "done"
                                       ELSE "read"]

\* write_shim_script up to fs::write: the text to write is computed from
\* what the shim file holds now
WriterRead(w) ==
    /\ wpc[w].at = "read"
    /\ UNCHANGED <<cliVars, dispVars, dirs, files, stale>>
    /\ IF ~IsExecutable(dirs, files, Head(wpc[w].todo))
       THEN wpc' = WriterNext(w) /\ UNCHANGED wbuf
       ELSE /\ wbuf' = [wbuf EXCEPT ![w] =
                           [seen |-> Seen(files, WriterShimPath(w)),
                            contents |-> shim_contents(files, WriterShimPath(w),
                                             wpc[w].plugin, wpc[w].version,
                                             FileName(Head(wpc[w].todo)))]]
            /\ wpc' = [wpc EXCEPT ![w].at = "write"]

\* fs::write of the whole text; a write over a file that changed since it
\* was read drops what the other process wrote
WriterWrite(w) ==
    /\ wpc[w].at = "write"
    /\ UNCHANGED <<cliVars, dispVars, dirs, wbuf>>
    /\ files' = WriteFile(files, WriterShimPath(w), wbuf[w].contents)
    /\ stale' = IF Seen(files, WriterShimPath(w)) # wbuf[w].seen
                THEN stale \cup {<<FileName(Head(wpc[w].todo)), Other(w)>>}
                ELSE stale
    /\ wpc' = [wpc EXCEPT ![w].at = "chmod"]

\* fs::set_permissions, then the next executable
WriterChmod(w) ==
    /\ wpc[w].at = "chmod"
    /\ UNCHANGED <<cliVars, dispVars, dirs, wbuf, stale>>
    /\ files' = SetPermissions(files, WriterShimPath(w), Mode755)
    /\ wpc' = WriterNext(w)

NextConc ==
    \E w \in Writers :
        \/ WriterStart(w)
        \/ WriterRead(w)
        \/ WriterWrite(w)
        \/ WriterChmod(w)

SpecConc == InitConc /\ [][NextConc]_vars

(***************************************************************************)
(* The shim dispatcher: a shim is run in the working directory, under some  *)
(* environment, version files and rc file.                                  *)
(***************************************************************************)
\* the shims directory after reshims of the given (plugin, version) pairs
RECURSIVE ShimsAfter(_, _, _)
ShimsAfter(d, f, pairs) ==
    IF pairs = <<>> THEN f
    ELSE ShimsAfter(d, generate_shims_for_version(d, f, pairs[1][1], pairs[1][2]).files,
                    Tail(pairs))

DispatchShims ==
    { <<<<"dummy", "0.1.0">>>>,
      <<<<"dummy", "0.1.0">>, <<"dummy", "ref:m">>, <<"foo", "0.1.0">>>> }

DispatchEnvs ==
    { <<>>,
      "ASDF_DUMMY_VERSION" :> "system",
      "ASDF_DUMMY_VERSION" :> "0.2.0",
      "ASDF_DUMMY_VERSION" :> "0.2.0 ref:m",
      "ASDF_DEFAULT_TOOL_VERSIONS_FILENAME" :> "/h/.tv" }

\* what a version file of the working directory may hold
ToolVersionsTexts ==
    { "dummy 0.1.0\n",
      "dummy 0.2.0 0.1.0 # newest first\n",
      "dummy system\n",
      "foo 0.1.0\ndummy path:/opt/d\n",
      "dummy path:/some/place with spaces\n" }

\* version files: of the working directory, of the home directory, the
\* default file, and a legacy file with the rc file that turns them on
DispatchFiles ==
    { cwd @@ home @@ legacy @@ ("/h/.tv" :> Text("dummy ref:m\n")) :
        cwd \in {<<>>} \cup {"/w/p/.tool-versions" :> Text(t) : t \in ToolVersionsTexts},
        home \in {<<>>, "/h/.tool-versions" :> Text("dummy 0.3.0\nfoo system\n")},
        legacy \in {<<>>,
                    ("/h/.asdfrc" :> Text("legacy_version_file = yes\n"))
                    @@ ("/d/plugins/dummy/bin/list-legacy-filenames" :> Script)
                    @@ ("/w/.dummy-version" :> Text("0.1.0"))} }

InitDispatch ==
    /\ dirs = ensure_shims_dir(BaseDirs \cup ShimFixture.dirs)
    /\ \E shims \in DispatchShims, vf \in DispatchFiles :
          files = ShimsAfter(dirs, PluginFiles @@ ShimFixture.files, shims) @@ vf
    /\ env \in DispatchEnvs
    /\ selected = <<>>
    /\ found = <<>>
    /\ batch = <<>>
    /\ parsed = <<>>
    /\ pc = "idle"
    /\ op = NoOp
    /\ queue = <<>>
    /\ result = "none"
    /\ log = <<>>
    /\ nops = 0
    /\ wpc = NoWriters
    /\ wbuf = NoWriters
    /\ stale = {}
    /\ reaped = {}

\* main: the exit code for what a command returned (<<>> is Ok, <<text>>
\* is Err with that text)
main_exit(e) ==
    IF e = <<>> THEN 0
    ELSE IF e[1] = "No plugin version set" THEN 126
    ELSE 1

\* with_shim_executable(shim): the outcome is kept in selected; error is
\* what the function returns and exit the code the process ends with
with_shim_executable(shim) ==
    /\ UNCHANGED <<dirs, files, env, reaped, found, parsed, batch, cliVars, concVars>>
    /\ \E sv \in {select_version(env, dirs, files, FileName(shim))} :
          selected' =
              IF ~IsFile(files, PathJoin(shims_path, FileName(shim)))
              THEN [shim |-> FileName(shim), ok |-> FALSE,
                    select_version |-> <<>>, selected_version |-> <<>>,
                    error |-> <<"unknown command">>,
                    exit |-> main_exit(<<"unknown command">>)]
              ELSE IF ~sv.ok
              THEN [shim |-> FileName(shim), ok |-> FALSE,
                    select_version |-> <<>>, selected_version |-> <<>>,
                    error |-> <<"asdf: unknown shim">>,
                    exit |-> main_exit(<<"asdf: unknown shim">>)]
              ELSE [shim |-> FileName(shim), ok |-> TRUE,
                    select_version |-> sv.v,
                    selected_version |->
                        IF sv.v # <<>> THEN sv.v
                        ELSE select_from_preset_version(env, dirs, files,
                                                        FileName(shim)),
                    error |-> <<>>,
                    exit |-> main_exit(<<>>)]

NextDispatch == \E shim \in {"/d/shims/a", "b", "c"} : with_shim_executable(shim)

SpecDispatch == InitDispatch /\ [][NextDispatch]_vars

(***************************************************************************)
(* install_local_tool_versions: every version the resolver gives for an    *)
(* installed plugin is installed, one install_tool_version after another.  *)
(***************************************************************************)
\* list_installed_plugins: the entries of the plugins directory, sorted
list_installed_plugins(d, f) ==
    IF IsDir(d, plugins_path)
    THEN SortNames({FileName(e) : e \in ReadDir(d, f, plugins_path)})
    ELSE <<>>

\* the error of the `?` after parse_tool_versions_file, without the line
\* it quotes
ParseError == "Cannot parse .tool-versions"

\* a test before the loop that only wants the file to parse
LocalPrecheckParses(f, plugins) ==
    Bind(LAMBDA tool_versions_path :
             IF tool_versions_path = <<>> THEN <<>>
             ELSE IF ~ToolVersions_from_str(f[tool_versions_path[1]].contents).ok
             THEN <<{ParseError}>>
             ELSE <<>>,
         find_file_upwards(f, ".tool-versions"))

\* install_local_tool_versions, the test before the loop: <<>> when the
\* nearest .tool-versions parses and declares installed plugins only,
\* otherwise <<lines>>, the lines of the error returned (one per plugin
\* that is not installed, in the order of the keys of the HashMap)
LocalPrecheck(f, plugins) ==
    Bind(LAMBDA tool_versions_path :
             IF tool_versions_path = <<>> THEN <<>>
             ELSE Bind(LAMBDA tool_versions :
                           IF ~tool_versions.ok THEN <<{ParseError}>>
                           ELSE IF DOMAIN tool_versions.tools \subseteq Range(plugins)
                           THEN <<>>
                           ELSE <<{plugin \o " plugin is not installed" :
                                    plugin \in DOMAIN tool_versions.tools
                                                   \ Range(plugins)}>>,
                       ToolVersions_from_str(f[tool_versions_path[1]].contents)),
         find_file_upwards(f, ".tool-versions"))

\* install_local_tool_versions, the loops: the (plugin, version) pairs in
\* the order they are installed.  The resolver reads the environment,
\* version files, rc files and plugin callbacks, none of which an install
\* changes, so what it gives during the loop is what it gives before it.
RECURSIVE LocalInstalls(_, _, _)
LocalInstalls(e, f, plugins) ==
    IF plugins = <<>> THEN <<>>
    ELSE Bind(LAMBDA plugin_versions :
                  IF plugin_versions = <<>> THEN <<>>
                  ELSE Bind(LAMBDA vs : [i \in 1..Len(vs) |-> <<Head(plugins), vs[i]>>],
                            Split[plugin_versions[1].version, " "]),
              find_versions(e, f, Head(plugins), Cwd))
         \o LocalInstalls(e, f, Tail(plugins))

\* install_one_local_tool(plugin_name): the version text find_versions
\* gives is handed to install_tool_version as it is; without one the call
\* fails
InstallOneLocalTool(plugin_name) ==
    /\ pc = "idle" /\ batch = <<>> /\ result = "none"
    /\ \E plugin_version_and_path \in {find_versions(env, files, plugin_name, Cwd)} :
          IF plugin_version_and_path # <<>>
          THEN InstallBegin(plugin_name, plugin_version_and_path[1].version, FALSE)
          ELSE /\ op' = [kind |-> "install_one", plugin |-> plugin_name,
                         full_version |-> "", keep |-> FALSE]
               /\ Finish("err")
               /\ log' = <<>>
               /\ nops' = nops + 1
               /\ UNCHANGED <<dirs, files, dispVars, concVars>>

\* install_local_tool_versions up to the first install_tool_version
InstallLocalBegin ==
    /\ pc = "idle" /\ batch = <<>> /\ result = "none"
    /\ UNCHANGED <<dirs, files, env, reaped, selected, found, parsed, cliVars, concVars>>
    /\ \E plugins \in {list_installed_plugins(dirs, files)} :
       \E refused \in {LocalPrecheck(files, plugins)} :
          batch' =
              IF plugins = <<>>
              THEN [status |-> "err", todo |-> <<>>, installs |-> <<>>,
                    some_tools_installed |-> FALSE,
                    error |-> {"Install plugins first to be able to install tools"}]
              ELSE IF refused # <<>>
              THEN [status |-> "err", todo |-> <<>>, installs |-> <<>>,
                    some_tools_installed |-> FALSE, error |-> refused[1]]
              ELSE [status |-> "running", todo |-> LocalInstalls(env, files, plugins),
                    installs |-> <<>>, some_tools_installed |-> FALSE, error |-> {}]

\* the next install_tool_version(plugin, plugin_version, false) of the loop
LocalInstall ==
    /\ batch # <<>> /\ batch.status = "running" /\ batch.todo # <<>>
    /\ result = "none"
    /\ InstallBegin(Head(batch.todo)[1], Head(batch.todo)[2], FALSE)

\* install_tool_version has returned: `?` ends the loop on an error,
\* otherwise the loop goes on; some_tools_installed was set when the
\* plugin's version was found
LocalNext ==
    /\ batch # <<>> /\ batch.status = "running" /\ batch.todo # <<>>
    /\ pc = "idle" /\ result \in {"ok", "err"}
    /\ UNCHANGED <<dirs, files, env, reaped, selected, found, parsed, pc, op, queue, log, concVars>>
    /\ batch' = [status |-> IF call(result = "ok") THEN "running" ELSE "err",
                 todo |-> Tail(batch.todo),
                 installs |-> Append(batch.installs,
                                     [plugin |-> Head(batch.todo)[1],
                                      version |-> Head(batch.todo)[2],
                                      result |-> result]),
                 some_tools_installed |-> TRUE,
                 error |-> IF call(result = "ok") THEN {}
                           ELSE {"install_tool_version"}]
    /\ result' = "none"
    /\ nops' = 0

\* a loop that reports success whatever it found
SomeToolsInstalledAlways(b) == TRUE

\* install_local_tool_versions: `if !some_tools_installed`
SomeToolsInstalled(b) == b.some_tools_installed

\* install_local_tool_versions after the loop
LocalFinish ==
    /\ batch # <<>> /\ batch.status = "running" /\ batch.todo = <<>>
    /\ pc = "idle" /\ result = "none"
    /\ UNCHANGED <<dirs, files, env, reaped, selected, found, parsed, cliVars, concVars>>
    /\ batch' = [batch EXCEPT
                    !.status = IF SomeToolsInstalled(batch) THEN "ok" ELSE "err",
                    !.error = IF SomeToolsInstalled(batch) THEN {}
                              ELSE {"Either specify a tool & version in the command",
                                    "OR add .tool-versions file in this directory",
                                    "or in a parent directory"}]

LocalEnvs ==
    { <<>>, "ASDF_DUMMY_VERSION" :> "system", "ASDF_FOO_VERSION" :> "0.1.0" }

\* the .tool-versions of the working directory: none, one tool, two tools,
\* one and two plugins that are not installed, a line without a version
LocalFiles ==
    {<<>>} \cup
    { "/w/p/.tool-versions" :> Text(t) :
        t \in {"dummy 0.1.0\n", "dummy 0.1.0 ref:m\nfoo 0.1.0\n",
               "bar 1.0\ndummy 0.1.0\n", "dummy\n", "foo 0.1.0\n",
               "bar 1.0\nfoo 0.1.0\nbaz 2\n", "bar 1.0\ndummy\n"} }

InitLocal ==
    /\ \/ \E inst \in InstallFixtures, vf \in LocalFiles :
             /\ dirs = BaseDirs \cup inst.dirs
             /\ files = PluginFiles @@ inst.files @@ vf
       \/ /\ dirs = {"/d", "/h", "/w", "/w/p"}
          /\ files = "/w/p/.tool-versions" :> Text("dummy 0.1.0\n")
    /\ env \in LocalEnvs
    /\ selected = <<>>
    /\ found = <<>>
    /\ batch = <<>>
    /\ parsed = <<>>
    /\ pc = "idle"
    /\ op = NoOp
    /\ queue = <<>>
    /\ result = "none"
    /\ log = <<>>
    /\ nops = 0
    /\ wpc = NoWriters
    /\ wbuf = NoWriters
    /\ stale = {}
    /\ reaped = {}

NextLocal ==
    \/ InstallLocalBegin
    \/ \E plugin_name \in Tools : InstallOneLocalTool(plugin_name)
    \/ LocalInstall
    \/ LocalNext
    \/ LocalFinish
    \/ PreInstallHook
    \/ Download
    \/ InstallCallback
    \/ PreReshimHook
    \/ PostReshimHook
    \/ PostInstallHook

SpecLocal == InitLocal /\ [][NextLocal]_vars

(***************************************************************************)
(* Installs of `path:` versions: install_tool_version is given a version   *)
(* of the form path:P, with P absolute or relative.                        *)
(***************************************************************************)
PathVersions == {"path:/opt/d", "path:tools"}

NextPath ==
    \/ \E t \in Tools, v \in PathVersions, k \in BOOLEAN : InstallBegin(t, v, k)
    \/ PreInstallHook
    \/ Download
    \/ InstallCallback
    \/ PreReshimHook
    \/ PostReshimHook
    \/ PostInstallHook

SpecPath == Init /\ [][NextPath]_vars

(***************************************************************************)
(* The version resolver: find_versions is called for a plugin and a search *)
(* directory under some environment, version files, legacy files and rc    *)
(* file.                                                                   *)
(***************************************************************************)
ResolveEnvs ==
    { dummy @@ default :
        dummy \in {<<>>, "ASDF_DUMMY_VERSION" :> "9.9.9"},
        default \in {<<>>, "ASDF_DEFAULT_TOOL_VERSIONS_FILENAME" :> "/h/.tv"} }

\* version files of the search directory, of its parent and of the home
\* directory, legacy files, the default file, and whether the rc file turns
\* legacy files on and the plugin has a list-legacy-filenames callback
ResolveFiles ==
    { near @@ far @@ nearLegacy @@ home @@ homeLegacy @@ default @@ rc @@ callback :
        near \in {<<>>, "/w/p/.tool-versions" :> Text("dummy 0.1.0\n"),
                  "/w/p/.tool-versions" :> Text("foo 0.1.0\n")},
        far \in {<<>>, "/w/.tool-versions" :> Text("dummy 0.2.0\n")},
        nearLegacy \in {<<>>, "/w/p/.dummy-version" :> Text("0.3.0"),
                        "/w/p/.dummy-version" :> Text("")},
        home \in {<<>>, "/h/.tool-versions" :> Text("dummy 0.4.0\n")},
        homeLegacy \in {<<>>, "/h/.dummy-version" :> Text("0.5.0")},
        default \in {<<>>, "/h/.tv" :> Text("dummy 0.6.0\n"),
                     "/h/.tv" :> Text("foo 0.6.0\n")},
        rc \in {<<>>, "/h/.asdfrc" :> Text("legacy_version_file = yes\n")},
        callback \in {<<>>, "/d/plugins/dummy/bin/list-legacy-filenames" :> Script} }

InitResolve ==
    /\ dirs = BaseDirs
    /\ \E vf \in ResolveFiles : files = PluginFiles @@ vf
    /\ env \in ResolveEnvs
    /\ selected = <<>>
    /\ found = <<>>
    /\ batch = <<>>
    /\ parsed = <<>>
    /\ pc = "idle"
    /\ op = NoOp
    /\ queue = <<>>
    /\ result = "none"
    /\ log = <<>>
    /\ nops = 0
    /\ wpc = NoWriters
    /\ wbuf = NoWriters
    /\ stale = {}
    /\ reaped = {}

\* find_versions(plugin_name, search_path): the outcome is kept in found
FindVersions(plugin_name, search_path) ==
    /\ UNCHANGED <<dirs, files, env, reaped, selected, parsed, batch, cliVars, concVars>>
    /\ found' = [plugin |-> plugin_name, search_path |-> search_path,
                 spec |-> find_versions(env, files, plugin_name, search_path)]

NextResolve ==
    \E plugin_name \in Tools, search_path \in {"/w/p", "/w"} :
        FindVersions(plugin_name, search_path)

SpecResolve == InitResolve /\ [][NextResolve]_vars

(***************************************************************************)
(* The tool-version grammar: a token is parsed and displayed; a            *)
(* .tool-versions file is parsed whole (parse_tool_versions_file) and      *)
(* looked up for one tool (parse_asdf_version_file).                       *)
(***************************************************************************)
\* tokens: a prefix of the grammar, or the beginning of one, and a rest
Tokens ==
    { prefix \o rest :
        prefix \in {"", "system", "latest", "latest:", "ref:", "path:", "ref", "sys"},
        rest \in {"", "1", "0.1.0", "m", "/some/place with spaces", ":x"} }

GrammarFile == "/w/p/.tool-versions"

GrammarTexts ==
    { "dummy path:/some/place with spaces\n",
      "dummy 0.1.0\ndummy 0.2.0 ref:m\n",
      "dummy 0.1.0 # first\nfoo system\ndummy latest\n",
      "dummy 0.1.0\n",
      "# only a comment\n\ndummy   0.1.0  latest:1 \n",
      "dummy\n",
      "foo path:/p\nfoo path:/q r\n" }

GrammarLines ==
    { "", "   ", "# only a comment", "  \t# c", "dummy 0.1.0", "dummy 0.1.0  ",
      "dummy 0.1.0 # first", "dummy 0.1.0#c # d", "dummy path:/a b\t" }

NoParse ==
    [tv |-> <<>>, shown |-> <<>>, tools |-> <<>>, lookup |-> <<>>, stripped |-> <<>>]

InitGrammar ==
    /\ dirs = BaseDirs
    /\ \/ \E t \in Tokens :
             /\ files = PluginFiles
             /\ parsed = [kind |-> "token", text |-> t, stage |-> "input"] @@ NoParse
       \/ \E t \in GrammarTexts :
             /\ files = PluginFiles @@ (GrammarFile :> Text(t))
             /\ parsed = [kind |-> "file", text |-> t, stage |-> "input"] @@ NoParse
       \/ \E t \in GrammarLines :
             /\ files = PluginFiles
             /\ parsed = [kind |-> "line", text |-> t, stage |-> "input"] @@ NoParse
    /\ env = NoEnv
    /\ selected = <<>>
    /\ found = <<>>
    /\ batch = <<>>
    /\ pc = "idle"
    /\ op = NoOp
    /\ queue = <<>>
    /\ result = "none"
    /\ log = <<>>
    /\ nops = 0
    /\ wpc = NoWriters
    /\ wbuf = NoWriters
    /\ stale = {}
    /\ reaped = {}

GrammarUnchanged ==
    UNCHANGED <<dirs, files, env, reaped, selected, found, batch, cliVars, concVars>>

\* ToolVersion::from_str on the token
FromStr ==
    /\ parsed.kind = "token" /\ parsed.stage = "input"
    /\ parsed' = [parsed EXCEPT !.stage = "parsed",
                                !.tv = <<ToolVersion_from_str(parsed.text)>>]
    /\ GrammarUnchanged

\* Display of the parsed token
Display ==
    /\ parsed.kind = "token" /\ parsed.stage = "parsed"
    /\ parsed.tv[1].tag # "Err"
    /\ parsed' = [parsed EXCEPT !.stage = "shown",
                                !.shown = <<ToolVersion_fmt(parsed.tv[1])>>]
    /\ GrammarUnchanged

\* parse_tool_versions_file
ParseToolVersionsFile ==
    /\ parsed.kind = "file" /\ parsed.stage = "input"
    /\ parsed' = [parsed EXCEPT
                     !.stage = "parsed",
                     !.tools = <<ToolVersions_from_str(files[GrammarFile].contents)>>]
    /\ GrammarUnchanged

\* parse_asdf_version_file for one tool
ParseAsdfVersionFile(plugin_name) ==
    /\ parsed.kind = "file" /\ parsed.stage = "parsed"
    /\ parsed' = [parsed EXCEPT
                     !.stage = "looked",
                     !.lookup = <<[plugin |-> plugin_name,
                                  version |-> parse_asdf_version_file(
                                                  files, GrammarFile, plugin_name)]>>]
    /\ GrammarUnchanged

\* remove_tool_version_comments on the line, and again on what it returned
RemoveComments ==
    /\ parsed.kind = "line" /\ parsed.stage \in {"input", "stripped"}
    /\ \/ /\ parsed.stage = "input"
          /\ parsed' = [parsed EXCEPT
                           !.stage = "stripped",
                           !.stripped = <<remove_tool_version_comments(parsed.text)>>]
       \/ /\ parsed.stage = "stripped" /\ parsed.stripped[1] # <<>>
          /\ parsed' = [parsed EXCEPT
                           !.stage = "restripped",
                           !.stripped = Append(@, remove_tool_version_comments(
                                                      parsed.stripped[1][1]))]
    /\ GrammarUnchanged

NextGrammar ==
    \/ FromStr
    \/ RemoveComments
    \/ Display
    \/ ParseToolVersionsFile
    \/ \E plugin_name \in Tools : ParseAsdfVersionFile(plugin_name)

SpecGrammar == InitGrammar /\ [][NextGrammar]_vars

(***************************************************************************)
(* The directories of installation records: install_path and download_path *)
(* on two records (install_type, version) of one plugin.                   *)
(***************************************************************************)
InstallRecords ==
    {"version", "ref"} \X {"0.1.0", "master", "ref-master", "version-1", "1"}

InitLayout ==
    /\ dirs = BaseDirs
    /\ files = PluginFiles
    /\ \E plugin_name \in Tools, a \in InstallRecords, b \in InstallRecords :
          parsed = [kind |-> "records", plugin |-> plugin_name, a |-> a, b |-> b,
                    stage |-> "input", install |-> <<>>, download |-> <<>>]
    /\ env = NoEnv
    /\ selected = <<>>
    /\ found = <<>>
    /\ batch = <<>>
    /\ pc = "idle"
    /\ op = NoOp
    /\ queue = <<>>
    /\ result = "none"
    /\ log = <<>>
    /\ nops = 0
    /\ wpc = NoWriters
    /\ wbuf = NoWriters
    /\ stale = {}
    /\ reaped = {}

\* install_path on both records; installs/<plugin> is created
InstallPath ==
    /\ parsed.kind = "records" /\ parsed.stage = "input"
    /\ parsed' = [parsed EXCEPT
                     !.stage = "install",
                     !.install = <<install_path(parsed.plugin, parsed.a[1], parsed.a[2]),
                                   install_path(parsed.plugin, parsed.b[1], parsed.b[2])>>]
    /\ dirs' = CreateDirAll(dirs, plugin_installs_path(parsed.plugin))
    /\ UNCHANGED <<files, env, reaped, selected, found, batch, cliVars, concVars>>

\* download_path on both records; downloads/<plugin> is created
DownloadPath ==
    /\ parsed.kind = "records" /\ parsed.stage = "install"
    /\ parsed' = [parsed EXCEPT
                     !.stage = "download",
                     !.download = <<download_path(parsed.plugin, parsed.a[1], parsed.a[2]),
                                    download_path(parsed.plugin, parsed.b[1], parsed.b[2])>>]
    /\ dirs' = CreateDirAll(dirs, plugin_downloads_path(parsed.plugin))
    /\ UNCHANGED <<files, env, reaped, selected, found, batch, cliVars, concVars>>

NextLayout == InstallPath \/ DownloadPath

SpecLayout == InitLayout /\ [][NextLayout]_vars

TypeOK ==
    /\ pc \in {"idle", "pre_install_hook", "download", "install",
               "pre_reshim_hook", "post_reshim_hook", "post_install_hook"}
    /\ result \in {"none", "ok", "err", "killed"}
    /\ nops \in 0..(MaxInstalls + MaxReshims)

(***************************************************************************)
(* Properties.                                                             *)
(***************************************************************************)
ShimFile(name) == PathJoin(shims_path, name)

\* the lines of a shim file
ShimLines(name) == Lines(files[ShimFile(name)].contents)

HasLine(name, plugin_name, version) ==
    /\ IsFile(files, ShimFile(name))
    /\ MetadataLine(plugin_name, version) \in Range(ShimLines(name))

\* the names of the executable entries of (plugin, version): those of the
\* plugin's shims directory and of the bin directory of the installed version
ExecNames(plugin_name, full_version) ==
    LET o == [kind |-> "none", plugin |-> plugin_name,
              full_version |-> full_version, keep |-> FALSE]
    IN  {FileName(e) : e \in {x \in DOMAIN files :
            /\ HasExecBit(files[x].mode)
            /\ \/ Parent(x) = PathJoin(plugin_path(plugin_name), "shims")
               \/ Parent(x) = PathJoin(OpInstallPath(o), "bin")}}

Done(kind) == pc = "idle" /\ result = "ok" /\ op.kind = kind

StepNames == [i \in 1..Len(log) |-> log[i][1]]

\* C2: after reshim_plugin(tool, v) succeeds, every executable entry of the
\* plugin's shims directory and of the version's bin path has a shim of mode
\* 0755 that contains the line `# asdf-plugin: <tool> <v>`.
C2_ShimIntegrity ==
    Done("reshim") =>
        \A name \in ExecNames(op.plugin, op.full_version) :
            /\ HasLine(name, op.plugin, op.full_version)
            /\ files[ShimFile(name)].mode = Mode755

\* C3: whatever reshims have run, every shim contains each of its metadata
\* lines at most once.
C3_NoDuplicateMetadata ==
    \A name \in ExeNames :
        IsFile(files, ShimFile(name)) =>
            \A i, j \in 1..Len(ShimLines(name)) :
                (/\ StartsWith(ShimLines(name)[i], "# asdf-plugin: ")
                 /\ ShimLines(name)[i] = ShimLines(name)[j]) => i = j

\* the full versions of a plugin that are installed
InstalledVersions(plugin_name) ==
    {v \in Versions :
        IsDir(dirs, OpInstallPath([kind |-> "none", plugin |-> plugin_name,
                                   full_version |-> v, keep |-> FALSE]))}

\* C4: after reshim of all versions of a tool, for every installed version v
\* a shim whose name is not an executable of (tool, v) does not contain
\* `# asdf-plugin: <tool> <v>` (or is gone), and every executable of
\* (tool, v) keeps that line in its shim.
C4_ObsoleteReaped ==
    Done("reshim_all") =>
        \A v \in InstalledVersions(op.plugin), name \in ExeNames :
            HasLine(name, op.plugin, v) <=> name \in ExecNames(op.plugin, v)

\* executable b was removed from dummy 0.1.0, all versions of dummy were
\* reshimmed: shim b is gone, shim a lists dummy 0.1.0
C4_Witness ==
    /\ Done("reshim_all")
    /\ op.plugin = "dummy"
    /\ nops = 3
    /\ ExecNames("dummy", "0.1.0") = {"a"}
    /\ ~IsFile(files, ShimFile("b"))
    /\ HasLine("a", "dummy", "0.1.0")

HasDownload(plugin_name) ==
    IsFile(files, PathJoin(PathJoin(plugin_path(plugin_name), "bin"), "download"))

\* the order of the steps of one install, hooks only when configured
InstallOrder(plugin_name) ==
    LET all == <<"pre_asdf_install", "download", "install", "pre_asdf_reshim",
                 "reshim", "post_asdf_reshim", "post_asdf_install">>
        runs(step) ==
            IF step \in {"download", "install", "reshim"} THEN TRUE
            ELSE HookConfigured(files, step \o "_" \o plugin_name)
    IN  SelectSeq(all, runs)

IsPrefix(a, b) == Len(a) <= Len(b) /\ a = SubSeq(b, 1, Len(a))

\* C6: within one install of a plugin with a download callback the steps run
\* in the order pre_asdf_install, download, install, reshim,
\* post_asdf_install; a step starts only after the previous one succeeded
\* and nothing runs after a failed step.
C6_InstallOrder ==
    (op.kind = "install" /\ HasDownload(op.plugin)) =>
        /\ IsPrefix(SelectSeq(StepNames, LAMBDA n : n # "remove_download"),
                    InstallOrder(op.plugin))
        /\ \A i \in 1..(Len(log) - 1) : log[i][2] = TRUE
        /\ (pc = "idle" /\ result = "ok" /\ log # <<>>) =>
               /\ log[Len(log)][2] = TRUE
               /\ Len(SelectSeq(StepNames, LAMBDA n : n # "remove_download"))
                      = Len(InstallOrder(op.plugin))

\* an install that ran all five steps
C6_Witness ==
    /\ Done("install")
    /\ op.plugin = "dummy"
    /\ SelectSeq(StepNames, LAMBDA n : n \in {"pre_asdf_install", "download", "install",
                                              "reshim", "post_asdf_install"})
         = <<"pre_asdf_install", "download", "install", "reshim", "post_asdf_install">>

\* C7: when install_tool_version fails because the download or the install
\* callback failed, the install directory of that version does not exist.
C7_FailedInstallLeavesNoDir ==
    (/\ pc = "idle" /\ result = "err" /\ op.kind = "install"
     /\ log # <<>>
     /\ log[Len(log)] \in {<<"download", FALSE>>, <<"install", FALSE>>})
        => ~IsDir(dirs, OpInstallPath(op))

\* a step of the CLI that is install_tool_version called for a version whose
\* install directory exists
InstallOfInstalled ==
    /\ pc = "idle"
    /\ nops' = nops + 1
    /\ op'.kind = "install"
    /\ op'.full_version # "system"
    /\ IsDir(dirs, OpInstallPath(op'))

\* C8: install of an installed (tool, version) succeeds, runs no callback
\* or hook and changes nothing in the filesystem.
C8_InstalledNoChange ==
    [][InstallOfInstalled =>
          /\ pc' = "idle" /\ result' = "ok" /\ log' = <<>>
          /\ dirs' = dirs /\ files' = files]_vars

\* C8 as amended: the only change is that installs/<tool> and
\* downloads/<tool> are created when missing.
C8_InstalledOnlyParents ==
    [][InstallOfInstalled =>
          /\ pc' = "idle" /\ result' = "ok" /\ log' = <<>>
          /\ files' = files
          /\ dirs \subseteq dirs'
          /\ dirs' \ dirs \subseteq {downloads_path, plugin_downloads_path(op'.plugin)}]_vars

\* an install of an installed version has returned
C8_Witness ==
    /\ Done("install")
    /\ op.full_version # "system"
    /\ log = <<>>
    /\ IsDir(dirs, OpInstallPath(op))
    /\ nops = 2

\* C9: an install interrupted by SIGINT while the install callback runs
\* leaves no install directory.
C9_InterruptedInstallRemoved ==
    (/\ pc = "idle" /\ result = "killed" /\ op.kind = "install"
     /\ \A i \in 1..Len(log) : log[i][1] # "install")
        => ~IsDir(dirs, OpInstallPath(op))

AlwaysKeepDownload == asdf_config_value(files, "always_keep_download") = <<"yes">>

WritersDone == \A w \in Writers : wpc # NoWriters /\ wpc[w].at = "done"

\* the executable names both processes write a shim for
SharedNames ==
    ExecNames(wpc[1].plugin, wpc[1].version) \cap ExecNames(wpc[2].plugin, wpc[2].version)

SelectedEntries == Range(shim_plugin_versions(dirs, files, selected.shim).v)

SelectedPair == Splitn2(selected.select_version[1], " ")

HasSelection == selected # <<>> /\ selected.ok /\ selected.select_version # <<>>

\* C1 (as stated): select_version never selects a (tool, version) pair that
\* is not listed in the metadata lines of the shim.
C1_OnlyListed ==
    HasSelection => selected.select_version[1] \in SelectedEntries

\* C1 (amended): the tool select_version selects is named in a metadata line
\* of the shim, and the version is listed for that tool in a metadata line,
\* or is `system`, or begins with `path:`.
C1_ListedSystemOrPath ==
    HasSelection =>
        /\ \E entry \in SelectedEntries : FirstWord(entry) = SelectedPair[1]
        /\ \/ selected.select_version[1] \in SelectedEntries
           \/ SelectedPair[2] = "system"
           \/ StartsWith(SelectedPair[2], "path:")

\* shim a lists dummy 0.1.0 and not dummy system; ASDF_DUMMY_VERSION=system
\* makes select_version give `dummy system`
C1_Witness ==
    /\ HasSelection
    /\ selected.shim = "a"
    /\ "dummy 0.1.0" \in SelectedEntries
    /\ "dummy system" \notin SelectedEntries
    /\ selected.select_version = <<"dummy system">>

(***************************************************************************)
(* Properties of the version resolver.                                     *)
(***************************************************************************)
\* the variable that overrides the version of a tool
EnvName(plugin_name) ==
    IF plugin_name = "dummy" THEN "ASDF_DUMMY_VERSION" ELSE "ASDF_FOO_VERSION"

EnvSet == EnvName(found.plugin) \in DOMAIN env

\* the file declares the tool found was asked for
Declares(path) == parse_asdf_version_file(files, path, found.plugin) # <<>>

DeclaredIn(path) == parse_asdf_version_file(files, path, found.plugin)[1]

\* legacy files are on: the rc file says yes and the plugin has the callback
LegacyOn ==
    /\ asdf_config_value(files, "legacy_version_file") = <<"yes">>
    /\ IsFile(files, "/d/plugins/" \o found.plugin \o "/bin/list-legacy-filenames")

LegacyFile(dir) == PathJoin(dir, "." \o found.plugin \o "-version")

\* the directory gives a hit
DirHit(dir) ==
    \/ Declares(PathJoin(dir, ".tool-versions"))
    \/ LegacyOn /\ IsFile(files, LegacyFile(dir))

\* the hit of a directory that has one
HitOf(dir) ==
    IF Declares(PathJoin(dir, ".tool-versions"))
    THEN VersionSpecifier(DeclaredIn(PathJoin(dir, ".tool-versions")), "ToolVersion",
                          PathJoin(dir, ".tool-versions"))
    ELSE VersionSpecifier(files[LegacyFile(dir)].contents, "Legacy", LegacyFile(dir))

\* the directories from the search directory up to the root that give a hit
WalkHits == {dir \in SelfAndAncestors(found.search_path) \cup {"/"} : DirHit(dir)}

Nearest(hits) == CHOOSE dir \in hits : \A other \in hits : Len(other) <= Len(dir)

DefaultVar == "ASDF_DEFAULT_TOOL_VERSIONS_FILENAME"

\* C11: if ASDF_<TOOL>_VERSION is set, find_versions returns its value with
\* source EnvVar("ASDF_<TOOL>_VERSION"), whatever the version files, legacy
\* files and default file hold.
C11_EnvOverride ==
    (found # <<>> /\ EnvSet) =>
        found.spec = <<VersionSpecifier(env[EnvName(found.plugin)], "EnvVar",
                                        EnvName(found.plugin))>>

\* the variable of dummy is set while the search directory declares dummy,
\* a legacy file is on and the default file declares dummy
C11_Witness ==
    /\ found # <<>> /\ found.plugin = "dummy" /\ found.search_path = "/w/p"
    /\ EnvSet
    /\ Declares("/w/p/.tool-versions")
    /\ LegacyOn /\ IsFile(files, "/w/p/.dummy-version")
    /\ DefaultVar \in DOMAIN env /\ Declares("/h/.tv")
    /\ found.spec[1].version = "9.9.9"
    /\ found.spec[1].source.kind = "EnvVar"

\* C12: when ASDF_<TOOL>_VERSION is unset and some directory from the search
\* directory up to the root gives a hit, find_versions returns the hit of the
\* nearest such directory; a .tool-versions that does not mention the tool
\* is not a hit.
C12_NearestWins ==
    (found # <<>> /\ ~EnvSet /\ WalkHits # {}) =>
        found.spec = <<HitOf(Nearest(WalkHits))>>

\* the search directory has a .tool-versions that does not mention dummy,
\* its parent declares dummy, and so do the home and the default file: the
\* parent's version is returned
C12_Witness ==
    /\ found # <<>> /\ found.plugin = "dummy" /\ found.search_path = "/w/p"
    /\ ~EnvSet
    /\ IsFile(files, "/w/p/.tool-versions") /\ ~Declares("/w/p/.tool-versions")
    /\ ~DirHit("/w/p")
    /\ Declares("/w/.tool-versions") /\ Declares("/h/.tool-versions")
    /\ found.spec = <<VersionSpecifier("0.2.0", "ToolVersion", "/w/.tool-versions")>>

\* C13: when the variable is unset and no directory up to the root gives a
\* hit, the home directory is looked into (its .tool-versions, then its
\* legacy file); the default file is used only when the home gives no hit,
\* the file exists and declares the tool, with source ToolVersion(its
\* path); otherwise the result is None.
C13_HomeThenDefault ==
    (found # <<>> /\ ~EnvSet /\ WalkHits = {}) =>
        found.spec =
            IF DirHit(Home) THEN <<HitOf(Home)>>
            ELSE IF DefaultVar \in DOMAIN env /\ Declares(env[DefaultVar])
            THEN <<VersionSpecifier(DeclaredIn(env[DefaultVar]), "ToolVersion",
                                    env[DefaultVar])>>
            ELSE <<>>

\* nothing up to the root; the home has only a legacy file, which is on, and
\* the default file declares dummy: the legacy file of the home is returned
C13_Witness ==
    /\ found # <<>> /\ found.plugin = "dummy" /\ found.search_path = "/w/p"
    /\ ~EnvSet /\ WalkHits = {}
    /\ ~Declares("/h/.tool-versions") /\ LegacyOn /\ IsFile(files, "/h/.dummy-version")
    /\ DefaultVar \in DOMAIN env /\ Declares("/h/.tv")
    /\ found.spec = <<VersionSpecifier("0.5.0", "Legacy", "/h/.dummy-version")>>

\* C14: find_versions returns a Legacy source only when legacy_version_file
\* is yes and the plugin has a list-legacy-filenames callback; when either
\* is missing and a .tool-versions up to the root declares the tool, the
\* nearest such file is returned whatever legacy files exist.
C14_LegacyOnlyWhenOn ==
    (found # <<>> /\ found.spec # <<>>) =>
        /\ found.spec[1].source.kind = "Legacy" => LegacyOn
        /\ (~LegacyOn /\ ~EnvSet /\ WalkHits # {}) =>
               found.spec = <<VersionSpecifier(
                   DeclaredIn(PathJoin(Nearest(WalkHits), ".tool-versions")),
                   "ToolVersion", PathJoin(Nearest(WalkHits), ".tool-versions"))>>

\* the rc file says yes but the plugin has no callback; the search directory
\* has a legacy file and its parent declares dummy: the parent's version is
\* returned
C14_Witness ==
    /\ found # <<>> /\ found.plugin = "dummy" /\ found.search_path = "/w/p"
    /\ ~EnvSet
    /\ asdf_config_value(files, "legacy_version_file") = <<"yes">>
    /\ ~LegacyOn
    /\ IsFile(files, "/w/p/.dummy-version") /\ ~IsFile(files, "/w/p/.tool-versions")
    /\ found.spec = <<VersionSpecifier("0.2.0", "ToolVersion", "/w/.tool-versions")>>

(***************************************************************************)
(* Properties of the dispatcher's outcome.                                 *)
(***************************************************************************)
\* C15: when the shim file exists and names at least one plugin but no
\* version is selected for it, with_shim_executable fails and the process
\* exits with code 126.
C15_NoVersionExits126 ==
    ( /\ selected # <<>>
      /\ IsFile(files, ShimFile(selected.shim))
      /\ SelectedEntries # {}
      /\ selected.ok
      /\ selected.selected_version = <<>> ) =>
        selected.error # <<>> /\ selected.exit = 126

(***************************************************************************)
(* Properties of the tool-version grammar.                                 *)
(***************************************************************************)
TokenParsed == parsed # <<>> /\ parsed.kind = "token" /\ parsed.stage # "input"

FileParsed == parsed # <<>> /\ parsed.kind = "file" /\ parsed.stage # "input"

\* what follows the first n characters of the token
Rest(n) == SubSeq(parsed.text, n + 1, Len(parsed.text))

\* C18: a specifier that begins with `path:` parses to the Path variant whose
\* path is the rest of the text, and the line
\* `dummy path:/some/place with spaces` parses to exactly
\* [Path("/some/place with spaces")] for dummy.
C18_PathVariant ==
    /\ (TokenParsed /\ StartsWith(parsed.text, "path:")) =>
           parsed.tv = <<[tag |-> "Path", val |-> <<Rest(5)>>]>>
    /\ (FileParsed /\ parsed.text = "dummy path:/some/place with spaces\n") =>
           /\ parsed.tools[1].ok
           /\ parsed.tools[1].tools =
                  ("dummy" :> <<[tag |-> "Path", val |-> <<"/some/place with spaces">>]>>)

\* C19: for every non-empty token, ToolVersion::from_str succeeds and
\* Display gives the token back; the empty token is rejected.
C19_RoundTrip ==
    TokenParsed =>
        /\ (parsed.tv[1].tag = "Err") <=> (parsed.text = "")
        /\ parsed.stage = "shown" => parsed.shown = <<parsed.text>>

\* `ref:m` was parsed to Ref("m") and displayed as `ref:m`
C19_Witness ==
    /\ TokenParsed /\ parsed.stage = "shown"
    /\ parsed.text = "ref:m"
    /\ parsed.tv = <<[tag |-> "Ref", val |-> <<"m">>]>>
    /\ parsed.shown = <<"ref:m">>

\* the lines of the file that begin with the tool and a space
ToolLines(plugin_name) ==
    SelectSeq(Lines(parsed.text), LAMBDA line : StartsWith(line, plugin_name \o " "))

LastLine(plugin_name) == ToolLines(plugin_name)[Len(ToolLines(plugin_name))]

\* C20: when the file has more than one line for a tool, the specifiers of
\* the last line are the tool's, in ToolVersions::from_str and in
\* parse_asdf_version_file.
C20_LastWins ==
    (FileParsed /\ parsed.stage = "looked"
         /\ Len(ToolLines(parsed.lookup[1].plugin)) > 1) =>
        /\ parsed.tools[1].ok
        /\ parsed.tools[1].tools[parsed.lookup[1].plugin] =
               ToolVersionsLine(Uncommented(LastLine(parsed.lookup[1].plugin))).versions
        /\ parsed.lookup[1].version =
               <<parse_tool_version_line(LastLine(parsed.lookup[1].plugin))[2]>>

(***************************************************************************)
(* Properties of installs of `path:` versions.                             *)
(***************************************************************************)
\* the directories under installs/<tool> and downloads/<tool>
OwnedDirs(plugin_name) ==
    {d \in dirs : \/ Under(d, plugin_installs_path(plugin_name))
                  \/ Under(d, plugin_downloads_path(plugin_name))}

\* C17: install_tool_version of a version `path:P` succeeds without running
\* the download or the install callback and without creating a directory
\* for it under installs/<tool> or downloads/<tool>.
C17_PathNoOp ==
    (op.kind = "install" /\ StartsWith(op.full_version, "path:")) =>
        /\ log = <<>>
        /\ pc = "idle" /\ result = "ok"
        /\ \A d \in OwnedDirs(op.plugin) : ~Contains(d, "path:")

(***************************************************************************)
(* Properties of install_local_tool_versions.                              *)
(***************************************************************************)
LocalDone == batch # <<>> /\ batch.status \in {"ok", "err"}

InstalledPlugins == {t \in Tools : IsDir(dirs, plugin_path(t))}

\* the resolver gives a version for the plugin in the working directory
Resolved(plugin_name) == find_versions(env, files, plugin_name, Cwd) # <<>>

\* the plugins install_tool_version was run for
Attempted == {batch.installs[i].plugin : i \in 1..Len(batch.installs)}

\* C16: install_local_tool_versions succeeds if and only if
\* install_tool_version was run for at least one tool and none of the
\* installs failed; plugins without a resolved version are skipped, every
\* plugin with one is installed, and the call fails when no plugin has one.
C16_LocalSuccess ==
    LocalDone =>
        /\ (batch.status = "ok") <=>
               /\ batch.installs # <<>>
               /\ \A i \in 1..Len(batch.installs) : batch.installs[i].result = "ok"
        /\ \A t \in Attempted : Resolved(t)
        /\ batch.status = "ok" => \A t \in InstalledPlugins : Resolved(t) => t \in Attempted
        /\ (\A t \in InstalledPlugins : ~Resolved(t)) => batch.status = "err"

\* dummy and foo are installed plugins, only dummy has a version: the call
\* succeeds after installing dummy 0.1.0 and skipping foo
C16_Witness ==
    /\ LocalDone /\ batch.status = "ok"
    /\ InstalledPlugins = {"dummy", "foo"}
    /\ Resolved("dummy") /\ ~Resolved("foo")
    /\ batch.installs = <<[plugin |-> "dummy", version |-> "0.1.0", result |-> "ok"]>>
    /\ log # <<>>

\* C21: remove_tool_version_comments gives None when the text before the
\* first pound sign, right-trimmed, is empty, and otherwise gives exactly that
\* right-trimmed text, so that stripping the result again changes nothing
C21_StripsComment ==
    (parsed # <<>> /\ parsed.kind = "line" /\ parsed.stage # "input") =>
        /\ parsed.stripped[1] =
               (IF Uncommented(parsed.text) = "" THEN <<>>
                ELSE <<Uncommented(parsed.text)>>)
        /\ \A i \in 1..Len(parsed.stripped) :
               parsed.stripped[i] # <<>> =>
                   /\ ~Contains(parsed.stripped[i][1], "#")
                   /\ TrimEnd[parsed.stripped[i][1]] = parsed.stripped[i][1]
        /\ Len(parsed.stripped) = 2 => parsed.stripped[2] = parsed.stripped[1]

(***************************************************************************)
(* Properties of the order in which the dispatcher tries its candidates.   *)
(***************************************************************************)
\* the plugins of the shim that was run, in the order of its metadata lines
PluginOrder == shim_plugins(dirs, files, selected.shim)

\* the versions the resolver gives for a plugin, in their declared order
VersionsOf(plugin_name) ==
    LET version_spec == find_versions(env, files, plugin_name, Cwd)
    IN  IF version_spec = <<>> THEN <<>> ELSE Split[version_spec[1].version, " "]

\* the candidates: <<i, j>> is the j-th version of the i-th plugin
Candidates ==
    {<<i, j>> \in (1..Len(PluginOrder)) \X (1..4) :
        j <= Len(VersionsOf(PluginOrder[i]))}

CandidateText(c) == PluginOrder[c[1]] \o " " \o VersionsOf(PluginOrder[c[1]])[c[2]]

\* a candidate is acceptable when the shim lists it, or it is `system`, or
\* it begins with `path:`
Acceptable(c) ==
    \/ CandidateText(c) \in SelectedEntries
    \/ VersionsOf(PluginOrder[c[1]])[c[2]] = "system"
    \/ StartsWith(VersionsOf(PluginOrder[c[1]])[c[2]], "path:")

Earlier(a, b) == a[1] < b[1] \/ (a[1] = b[1] /\ a[2] < b[2])

\* C22: select_version tries the plugins in the order of the metadata lines
\* of the shim and the resolved versions of each plugin in their declared
\* order; it returns the first acceptable (plugin, version) pair, and None
\* only when no candidate is acceptable.
C22_FirstAcceptable ==
    (selected # <<>> /\ selected.ok) =>
        LET acceptable == {c \in Candidates : Acceptable(c)}
        IN  IF acceptable = {} THEN selected.select_version = <<>>
            ELSE \E c \in acceptable :
                    /\ \A b \in acceptable : b = c \/ Earlier(c, b)
                    /\ selected.select_version = <<CandidateText(c)>>

\* the first plugin of the shim has resolved versions, none of them
\* acceptable, and the pair returned is of a later plugin
C22_Witness ==
    /\ HasSelection
    /\ Len(PluginOrder) > 1
    /\ VersionsOf(PluginOrder[1]) # <<>>
    /\ \A c \in Candidates : PluginOrder[c[1]] = PluginOrder[1] => ~Acceptable(c)
    /\ SelectedPair[1] # PluginOrder[1]

(***************************************************************************)
(* Properties of the reaping of obsolete shims.                            *)
(***************************************************************************)
\* the shim had the metadata line of the (tool, version) of the round
HadLine(r) == MetadataLine(r.plugin, r.version) \in Range(Lines(r.before))

\* the lines of the shim other than that metadata line
KeptLines(r) ==
    SelectSeq(Lines(r.before), LAMBDA line : line # MetadataLine(r.plugin, r.version))

NoMetadata(lines) ==
    \A i \in 1..Len(lines) : ~StartsWith(lines[i], "# asdf-plugin:")

\* C23: when an obsolete shim is reaped for (tool, v), exactly the line
\* `# asdf-plugin: <tool> <v>` is removed from it; the file is deleted if no
\* metadata line remains or the tool has no installed version, and otherwise
\* it is rewritten with every other line, metadata and exec, kept.
C23_ReapRemovesLine ==
    \A r \in reaped :
        HadLine(r) =>
            IF \/ NoMetadata(KeptLines(r))
               \/ list_installed_versions(dirs, files, r.plugin) = <<>>
            THEN r.after = <<>>
            ELSE r.after # <<>> /\ Lines(r.after[1]) = KeptLines(r)

\* a shim that listed the version of the round and another version was
\* rewritten and still lists the other version
C23_Witness ==
    \E r \in reaped :
        /\ HadLine(r)
        /\ ~NoMetadata(KeptLines(r))
        /\ r.after # <<>>
        /\ IsFile(files, ShimFile(r.shim))

\* C24: reaping for (tool, v) leaves every file of the shims directory that
\* does not contain the line `# asdf-plugin: <tool> <v>` as it was, neither
\* deleted nor rewritten.
C24_OthersUntouched ==
    \A r \in reaped : ~HadLine(r) => r.after = <<r.before>>

(***************************************************************************)
(* Properties of legacy files without a version.                           *)
(***************************************************************************)
\* C25: an existing legacy file whose version is empty is not a hit:
\* find_versions does not return Legacy for it and goes on with the
\* remaining legacy names and the farther directories.
C25_EmptyLegacyNoHit ==
    (found # <<>> /\ found.spec # <<>> /\ found.spec[1].source.kind = "Legacy") =>
        /\ found.spec[1].version # ""
        /\ parse_legacy_version_file(files, found.spec[1].source.origin,
                                     found.plugin) # <<"">>

(***************************************************************************)
(* Properties of the refusal of install_local_tool_versions.               *)
(***************************************************************************)
\* the tools the nearest .tool-versions, upward from the working
\* directory, declares
DeclaredTools ==
    LET tool_versions_path == find_file_upwards(files, ".tool-versions")
    IN  IF tool_versions_path = <<>> THEN {}
        ELSE {parse_tool_version_line(line)[1] :
                line \in {l \in Range(Lines(files[tool_versions_path[1]].contents)) :
                             parse_tool_version_line(l) # <<>>}}

\* the declared tools whose plugin is not installed
MissingPlugins == DeclaredTools \ Range(list_installed_plugins(dirs, files))

NamesMissing == {plugin \o " plugin is not installed" : plugin \in MissingPlugins}

NearestParses ==
    ToolVersions_from_str(
        files[find_file_upwards(files, ".tool-versions")[1]].contents).ok

\* C26 (as stated): when the nearest .tool-versions declares a tool whose
\* plugin is not installed, install_local_tool_versions refuses with an
\* error that names each missing plugin, and runs no hook, download or
\* install callback.
C26_RefusesNamingMissing ==
    (batch # <<>> /\ MissingPlugins # {}) =>
        /\ batch.status = "err"
        /\ batch.error = NamesMissing
        /\ batch.installs = <<>> /\ log = <<>> /\ pc = "idle"

\* C26 (amended): in that case the call refuses and runs no hook, download
\* or install callback; the error names each missing plugin when at least
\* one plugin is installed and the file parses, it is `Install plugins
\* first ...` when no plugin is installed, and the parse error when the
\* file does not parse.
C26_RefusesMissing ==
    (batch # <<>> /\ MissingPlugins # {}) =>
        /\ batch.status = "err"
        /\ batch.installs = <<>> /\ log = <<>> /\ pc = "idle"
        /\ batch.error =
               IF list_installed_plugins(dirs, files) = <<>>
               THEN {"Install plugins first to be able to install tools"}
               ELSE IF ~NearestParses THEN {ParseError}
               ELSE NamesMissing

\* dummy and foo are installed, the file declares foo and also bar and baz:
\* the error names bar and baz and nothing was installed
C26_Witness ==
    /\ batch # <<>> /\ batch.status = "err"
    /\ MissingPlugins = {"bar", "baz"}
    /\ "foo" \in DeclaredTools
    /\ batch.error = {"bar plugin is not installed", "baz plugin is not installed"}
    /\ batch.installs = <<>> /\ log = <<>>

(***************************************************************************)
(* Properties of the version names of reshim of all versions.              *)
(***************************************************************************)
\* the names of the install directories of the plugin being reshimmed
InstallDirNames ==
    {FileName(e) : e \in ReadDir(dirs, files, plugin_installs_path(op.plugin))}

\* the version a directory name stands for: only a leading `ref-` is
\* translated
LeadingRef(name) ==
    IF StartsWith(name, "ref-") THEN "ref:" \o SubSeq(name, 5, Len(name)) ELSE name

\* C27: in reshim of all versions the version used for a round (in hooks,
\* shim metadata and reaping) is the name of an install directory with only
\* a leading `ref-` translated into `ref:`; a name that holds `ref-`
\* elsewhere, as pref-1, is used as it is.
C27_LeadingRefOnly ==
    (op.kind = "reshim_all" /\ pc \in {"pre_reshim_hook", "post_reshim_hook"}) =>
        op.full_version \in {LeadingRef(name) : name \in InstallDirNames}

(***************************************************************************)
(* Properties of paths with spaces.                                        *)
(***************************************************************************)
\* what the resolver gives for the plugin select_version chose
ResolvedOfSelected == find_versions(env, files, SelectedPair[1], Cwd)

\* C28: for a .tool-versions line `tool path:P` where P contains spaces,
\* find_versions yields `path:P` and select_version returns `tool path:P`
\* with the complete P, never a prefix of P cut at a space.
C28_PathKeptWhole ==
    ( /\ HasSelection
      /\ ResolvedOfSelected # <<>>
      /\ ResolvedOfSelected[1].source.kind = "ToolVersion"
      /\ StartsWith(ResolvedOfSelected[1].version, "path:") ) =>
        /\ (SelectedPair[1] \o " " \o ResolvedOfSelected[1].version)
               \in Range(Lines(files[ResolvedOfSelected[1].source.origin].contents))
        /\ selected.select_version =
               <<SelectedPair[1] \o " " \o ResolvedOfSelected[1].version>>

(***************************************************************************)
(* Properties of the versions handed to install_tool_version.              *)
(***************************************************************************)
\* C29: install_one_local_tool installs each version of the resolved
\* version list of the tool as a (tool, version) of its own, as
\* install_local_tool_versions does: install_tool_version is never run
\* with the whole list `v1 v2` as one version.
C29_OneVersionEach ==
    op.kind = "install" => op.full_version \in Range(VersionsOf(op.plugin))

(***************************************************************************)
(* Properties of the directories of installation records.                  *)
(***************************************************************************)
\* C30: for one tool, two different (install_type, version) pairs with
\* types other than path never yield the same install_path or the same
\* download_path.
C30_DistinctDirs ==
    (parsed # <<>> /\ parsed.kind = "records" /\ parsed.a # parsed.b) =>
        /\ parsed.stage # "input" => parsed.install[1] # parsed.install[2]
        /\ parsed.stage = "download" => parsed.download[1] # parsed.download[2]

==============================================================================
